---- MODULE Spec2Model ----
(***************************************************************************)
(* TikTokLive: the real-time session engine of TikTokLiveClient.           *)
(*                                                                         *)
(* The model follows src/TikTokLive/client/client.py (public client and    *)
(* event router), src/TikTokLive/client/ws/ws_client.py (WebcastWSClient:  *)
(* ack, heartbeat, teardown) and src/TikTokLive/client/ws/ws_connect.py    *)
(* (WebcastConnect.__aiter__: upgrade, inbound loop).                      *)
(*                                                                         *)
(* asyncio is single-threaded and cooperative: one action of the model is  *)
(* the code a task runs between two suspension points.  Tasks that are     *)
(* ready to run are interleaved in any order.                              *)
(*                                                                         *)
(* Calls are bound by data flow: keyword names that differ between the     *)
(* files of the source tree (authenticate_websocket at client.py:326,      *)
(* preferred_agent_ids at client.py:168) are not modelled.                 *)
(*                                                                         *)
(* Six specifications share the actions of the engine:                     *)
(*   Spec          one session: start() is called once, disconnect() at    *)
(*                 any time, the peer sends frames and closes at any time; *)
(*   SpecRace      racing calls of start(), up to the answers to the       *)
(*                 upgrade requests;                                       *)
(*   SpecRouter    the event router applied to one envelope, over all the  *)
(*                 kinds of message;                                       *)
(*   SpecHandlers  one session of a consumer whose handlers may raise,     *)
(*                 while the connection stays up;                          *)
(*   SpecConnect   one session of a consumer that calls connect();         *)
(*   SpecSign      start() up to the signed handshake, over the settings   *)
(*                 and the answers of the signing service.                 *)
(*                                                                         *)
(* Five more, one per component outside the engine, each over a variable   *)
(* of its own that is idle in the others:                                  *)
(*   SpecUri       build_webcast_uri (ws_utils.py) over its arguments;     *)
(*   SpecCookie    get_ws_cookie_string (ws_client.py) over cookie jars;   *)
(*   SpecLive      is_live() and the first steps of start() (client.py),   *)
(*                 over the handles given to them;                         *)
(*   SpecProxy     ProxyContainer (client/proxy.py): get, pinning,         *)
(*                 enabling;                                               *)
(*   SpecLegacy    the connect guard of the request-polling client         *)
(*                 (client/base.py and TikTokLive/client.py).              *)
(*                                                                         *)
(* The handshake reads the attribute authenticate_websocket of the HTTP    *)
(* client (fetch_signed_websocket.py:52), which no file of the source      *)
(* tree defines: it is drawn as a boolean setting.                         *)
(*                                                                         *)
(* A received message carries whether its bytes decode (decodes): the      *)
(* decoders are betterproto's parse and gzip, outside the source tree.     *)
(*                                                                         *)
(* The behaviour of emit is that of pyee's AsyncIOEventEmitter, the base   *)
(* class of TikTokLiveClient (client.py:10, 28).                           *)
(*                                                                         *)
(* The variables lastFrame, lastResp, lastOpen, acks, emitted, emitter,    *)
(* lastUpgrade, lastHandler and lastSign describe the last step only; obs  *)
(* records, per session, what has been emitted so far.                     *)
(***************************************************************************)
EXTENDS Integers, Sequences, FiniteSets, TLC

\* ------------------------------------------------------------------ bounds
MaxStarts == 2
MaxFrames == 2
MaxMsgs == 2
MaxDisc == 2
MaxCalls == 3
MaxProxies == 3
MaxProxyCalls == 4
MaxLegacyCalls == 6

\* ------------------------------------------------------- program constants
CONTROL_ACTION_FALLBACK_UNKNOWN == 0
CONTROL_ACTION_STREAM_PAUSED == 1
CONTROL_ACTION_STREAM_UNPAUSED == 2
CONTROL_ACTION_STREAM_ENDED == 3
CONTROL_ACTION_STREAM_SUSPENDED == 4

ControlAction ==
  { CONTROL_ACTION_FALLBACK_UNKNOWN, CONTROL_ACTION_STREAM_PAUSED,
    CONTROL_ACTION_STREAM_UNPAUSED, CONTROL_ACTION_STREAM_ENDED,
    CONTROL_ACTION_STREAM_SUSPENDED }

\* ------------------------------------------------------------- event router
\* A message of an envelope: its method, whether its payload parses under the
\* type the method selects, the action field (Control messages) and the marker
\* words that base_message.display_text.key contains.
ControlMessages ==
  { [method |-> "WebcastControlMessage", parses |-> TRUE, action |-> a, key |-> {}] :
      a \in ControlAction }

SocialMessages ==
  { [method |-> "WebcastSocialMessage", parses |-> TRUE,
     action |-> CONTROL_ACTION_FALLBACK_UNKNOWN, key |-> k] :
      k \in {{"follow"}, {"share"}} }

ChatMessages ==
  { [method |-> "WebcastChatMessage", parses |-> p,
     action |-> CONTROL_ACTION_FALLBACK_UNKNOWN, key |-> {}] : p \in BOOLEAN }

UnmappedMessages ==
  { [method |-> "WebcastUntrackedMessage", parses |-> p,
     action |-> CONTROL_ACTION_FALLBACK_UNKNOWN, key |-> {}] : p \in BOOLEAN }

Messages == ControlMessages \cup SocialMessages \cup ChatMessages \cup UnmappedMessages

\* The messages drawn for the envelopes of a session: a tracked one that parses,
\* one that does not, an untracked one and the stream-ended control signal.
SessionMessages ==
  ChatMessages \cup {m \in UnmappedMessages : m.parses}
    \cup {m \in ControlMessages : m.action = CONTROL_ACTION_STREAM_ENDED}

\* EVENT_MAPPINGS.get(method): the proto event type of a method, "None" if the
\* method is not tracked.
EVENT_MAPPINGS(method) ==
  CASE method = "WebcastChatMessage" -> "CommentEvent"
    [] method = "WebcastSocialMessage" -> "SocialEvent"
    [] method = "WebcastControlMessage" -> "ControlEvent"
    [] OTHER -> "None"

\* handle_custom_event: the synthetic event derived from a parsed proto event
\* ("None" if there is none) and whether disconnect() was scheduled as a task.
handle_custom_event(m, event_type) ==
  IF event_type = "ControlEvent"
  THEN IF m.action \in {CONTROL_ACTION_STREAM_ENDED, CONTROL_ACTION_STREAM_SUSPENDED}
       THEN [custom |-> "LiveEndEvent", sched |-> TRUE]
       ELSE IF m.action = CONTROL_ACTION_STREAM_PAUSED
       THEN [custom |-> "LivePauseEvent", sched |-> FALSE]
       \* client.py:436 tests STREAM_PAUSED a second time: the branch is dead
       ELSE IF m.action = CONTROL_ACTION_STREAM_PAUSED
       THEN [custom |-> "LiveUnpauseEvent", sched |-> FALSE]
       ELSE [custom |-> "None", sched |-> FALSE]
  ELSE IF "follow" \in m.key THEN [custom |-> "FollowEvent", sched |-> FALSE]
  ELSE IF "share" \in m.key THEN [custom |-> "ShareEvent", sched |-> FALSE]
  ELSE [custom |-> "None", sched |-> FALSE]

\* _parse_webcast_response_message: the list of event types of one message and
\* whether a disconnect task was scheduled.
parse_message_custom_last(m) ==
  LET event_type == EVENT_MAPPINGS(m.method) IN
  IF event_type = "None"
  THEN [events |-> <<"WebsocketResponseEvent", "UnknownEvent">>, sched |-> FALSE]
  ELSE IF ~m.parses
  THEN [events |-> <<"WebsocketResponseEvent">>, sched |-> FALSE]
  ELSE LET c == handle_custom_event(m, event_type) IN
       [events |-> IF c.custom # "None"
                   THEN <<"WebsocketResponseEvent", event_type, c.custom>>
                   ELSE <<"WebsocketResponseEvent", event_type>>,
        sched |-> c.sched]

parse_message_unknown_parsed(m) ==
  LET event_type == EVENT_MAPPINGS(m.method) IN
  IF ~m.parses
  THEN [events |-> <<"WebsocketResponseEvent">>, sched |-> FALSE]
  ELSE IF event_type = "None"
  THEN [events |-> <<"WebsocketResponseEvent", "UnknownEvent">>, sched |-> FALSE]
  ELSE LET c == handle_custom_event(m, event_type) IN
       [events |-> IF c.custom # "None"
                   THEN <<c.custom, "WebsocketResponseEvent", event_type>>
                   ELSE <<"WebsocketResponseEvent", event_type>>,
        sched |-> c.sched]

parse_webcast_response_message(m) ==
  LET event_type == EVENT_MAPPINGS(m.method) IN
  IF event_type = "None"
  THEN [events |-> <<"WebsocketResponseEvent", "UnknownEvent">>, sched |-> FALSE]
  ELSE IF ~m.parses
  THEN [events |-> <<"WebsocketResponseEvent">>, sched |-> FALSE]
  ELSE LET c == handle_custom_event(m, event_type) IN
       [events |-> IF c.custom # "None"
                   THEN <<c.custom, "WebsocketResponseEvent", event_type>>
                   ELSE <<"WebsocketResponseEvent", event_type>>,
        sched |-> c.sched]

\* An emitted event: its type and the index of the message of the envelope it
\* was derived from (0: derived from no message).
Tag(types, i) == [j \in 1..Len(types) |-> [type |-> types[j], msg |-> i]]

RECURSIVE MessageEvents(_, _)
MessageEvents(msgs, i) ==
  IF i > Len(msgs) THEN <<>>
  ELSE Tag(parse_webcast_response_message(msgs[i]).events, i) \o MessageEvents(msgs, i + 1)

\* _parse_webcast_response: the events yielded for one fetch-result envelope.
parse_webcast_response(resp) ==
  (IF resp.is_first THEN <<[type |-> "ConnectEvent", msg |-> 0]>> ELSE <<>>)
    \o MessageEvents(resp.messages, 1)

\* The number of disconnect tasks that parsing the first `last` messages of
\* the envelope schedules.
ScheduledUpTo(resp, last) ==
  Cardinality({i \in 1..last :
                 parse_webcast_response_message(resp.messages[i]).sched})

\* The number of disconnect tasks that parsing the envelope schedules.
Scheduled(resp) == ScheduledUpTo(resp, Len(resp.messages))

\* The subscribers of the events of one envelope: the handler of the event
\* at `index` raises (0: every handler returns); it is a plain function or a
\* coroutine function; error_listener tells whether the consumer subscribed
\* to the emitter's "error" event. A plain handler without an error listener
\* raises at any event, the other two kinds at the first event.
NoHandler == [index |-> 0, kind |-> "sync", error_listener |-> FALSE]
Handlers ==
  {NoHandler} \cup
  { [NoHandler EXCEPT !.index = i] : i \in 1..(1 + 3 * MaxMsgs) } \cup
  { [NoHandler EXCEPT !.index = 1, !.error_listener = TRUE],
    [NoHandler EXCEPT !.index = 1, !.kind = "async"] }

\* self.emit(event.type, event) for each event of the envelope in turn
\* (client.py:335-338; the emitter is pyee's AsyncIOEventEmitter). A plain
\* handler runs inside emit: its exception is re-emitted as "error", which
\* the consumer's error listener receives, and which emit raises when there
\* is no such listener. A coroutine handler is scheduled: its exception
\* surfaces later in the future's callback, outside the session task.
\* The result: the events delivered, and whether emit raised.
emit(events, h) ==
  IF h.index = 0 \/ h.kind = "async" \/ h.error_listener
  THEN [delivered |-> events, raised |-> FALSE]
  ELSE [delivered |-> SubSeq(events, 1, h.index), raised |-> TRUE]

\* ------------------------------------------------------------------- state
Starts == 1..MaxStarts                 \* start() calls; call k creates session task k
Discs == 1..MaxDisc                    \* disconnect() coroutines
Pings == 1..(MaxStarts + MaxFrames)    \* heartbeat tasks (one per is_first envelope)

NoFrame == [log_id |-> -1, seq |-> 0, payload_type |-> "None", decodes |-> TRUE]

\* The fields of an initial response that build_webcast_uri reads: the cursor,
\* the push server ("": empty) and the route parameters ({}: none).
InitialUris == [cursor : {"", "c0"}, push_server : {"", "wss://x/y"},
                route_params : {{}, {"k"}}]

NoUri == [cursor |-> "", push_server |-> "", route_params |-> {}]

\* build_webcast_uri: the error it raises for an initial response, "None" when
\* it returns a URI.
build_webcast_uri_unchecked_cursor(initial) ==
  IF initial.push_server = "" THEN "WebsocketURLMissingError"
  ELSE IF initial.route_params = {} THEN "WebsocketURLMissingError"
  ELSE "None"

build_webcast_uri(initial) ==
  IF initial.cursor = "" THEN "InitialCursorMissingError"
  ELSE IF initial.push_server = "" THEN "WebsocketURLMissingError"
  ELSE IF initial.route_params = {} THEN "WebsocketURLMissingError"
  ELSE "None"

\* The cursor and the internal_ext of an initial response that
\* build_webcast_uri puts in the URI, ws_utils.py:40-45.
uri_params(initial) == [cursor |-> initial.cursor, internal_ext |-> initial.internal_ext]

\* A Python dict: the sequence of its <<key, value>> pairs in insertion order.
\* d[k] = v keeps the place of a key the dict has and appends a new one.
dict_set(d, k, v) ==
  IF \E i \in DOMAIN d : d[i][1] = k
  THEN [i \in DOMAIN d |-> IF d[i][1] = k THEN <<k, v>> ELSE d[i]]
  ELSE Append(d, <<k, v>>)

\* d.update(e), which is also what {**d, **e} does to a copy of d.
RECURSIVE dict_update(_, _)
dict_update(d, e) ==
  IF e = <<>> THEN d
  ELSE dict_update(dict_set(d, Head(e)[1], Head(e)[2]), Tail(e))

\* sep.join(f"{key}={value}" for key, value in d.items())
RECURSIVE join_items(_, _)
join_items(d, sep) ==
  IF d = <<>> THEN ""
  ELSE IF Len(d) = 1 THEN d[1][1] \o "=" \o d[1][2]
  ELSE d[1][1] \o "=" \o d[1][2] \o sep \o join_items(Tail(d), sep)

\* The fields of an initial response that the three tests of build_webcast_uri
\* read, ws_utils.py:30-37: route_params is empty or not.
uri_fields(initial) ==
  [cursor |-> initial.cursor, push_server |-> initial.push_server,
   route_params |-> {initial.route_params[i][1] : i \in DOMAIN initial.route_params}]

\* build_webcast_uri, ws_utils.py:14-55: the exception it raises ("None":
\* none), the string it returns, and its two mutable arguments as the call
\* leaves them. uri_params is a new dict; nothing is assigned to the
\* arguments.
connect_uri_in_place(initial, base_uri_params, base_uri_append_str) ==
  LET params == dict_update(dict_update(base_uri_params, initial.route_params),
                            <<<<"internal_ext", initial.internal_ext>>,
                              <<"cursor", initial.cursor>>>>)
      error == build_webcast_uri(uri_fields(initial)) IN
  [error |-> error,
   connect_uri |-> IF error # "None" THEN ""
                   ELSE initial.push_server \o "?" \o join_items(params, "&")
                          \o base_uri_append_str,
   initial |-> initial,
   base_uri_params |-> IF error # "None" THEN base_uri_params ELSE params]

connect_uri(initial, base_uri_params, base_uri_append_str) ==
  LET params == dict_update(dict_update(initial.route_params, base_uri_params),
                            <<<<"internal_ext", initial.internal_ext>>,
                              <<"cursor", initial.cursor>>>>)
      error == build_webcast_uri(uri_fields(initial)) IN
  [error |-> error,
   connect_uri |-> IF error # "None" THEN ""
                   ELSE initial.push_server \o "?" \o join_items(params, "&")
                          \o base_uri_append_str,
   initial |-> initial,
   base_uri_params |-> base_uri_params]

VARIABLES
  room_id,              \* TikTokLiveClient._room_id: "None" or a room id
  room_info,            \* TikTokLiveClient._room_info
  gift_info,            \* TikTokLiveClient._gift_info
  event_loop_task,      \* TikTokLiveClient._event_loop_task: 0 (None) or a session task
  ping_loop,            \* WebcastWSClient._ping_loop: 0 (None) or a heartbeat task
  connection_generator, \* WebcastWSClient._connection_generator: 0 (None) or a session's WebcastConnect
  startPc,              \* where each start() call is suspended
  startErr,             \* the error a start() call raised
  base_ex,              \* per call of start(): the exception of the HTML stage, while
                        \* the except clause that caught it runs ("None": none)
  api,                  \* per call: whether the consumer called start() or connect()
  sessPc,               \* where each session task (_ws_client_loop) is suspended
  sessErr,              \* the exception a session task ended with
  first_connect,        \* WebcastConnect.__aiter__: first_connect
  initial_uri,          \* the fields of the session's initial response that its URI is built from
  wsState,              \* WebcastConnect._ws: "None" or the state of its protocol
  inbox,                \* messages the protocol has received and recv() has not returned
  agen,                 \* the async generator of __aiter__: abandoned at a yield, being closed
  awaiting,             \* the heartbeat task a session awaits in its teardown
  pingPc,               \* where each heartbeat task (_ping_loop_fn) is
  pingCancel,           \* Task.cancel() was called on the heartbeat task
  discPc,               \* where each disconnect() coroutine is suspended
  discWs,               \* the generator whose protocol a disconnect() is closing
  discTask,             \* the session task a disconnect() awaits
  wireSeq,              \* number of frames the peer has sent
  lastFrame,            \* the push frame handled by the last step (NoFrame: none)
  lastResp,             \* the envelope yielded by the last step
  lastOpen,             \* whether the socket was open when that envelope was acked
  acks,                 \* the frames send_ack sent in the last step
  emitted,              \* the events emitted by the last step
  emitter,              \* the session task that emitted them (0: none)
  lastUpgrade,          \* the answer to the upgrade request handled by the last step
  lastHandler,          \* the subscribers that received the events of the last step
  lastSign,             \* the signed handshake made by the last step: its inputs and result
  obs,                  \* per session: what has been emitted so far
  uri,                  \* build_webcast_uri: its arguments, and what its calls returned
  ws_cookie,            \* get_ws_cookie_string: its arguments, and what it returned
  live,                 \* TikTokLiveClient._unique_id and _is_userid, and the last call
                        \* of is_live() or start() that read them
  proxy,                \* a ProxyContainer: its fields, and the last call made on it
  legacy                \* the connect guard of the request-polling client: its two
                        \* flags, the _connect in progress, and the last call

clientVars == <<room_id, room_info, gift_info, event_loop_task>>
startVars == <<startPc, startErr, base_ex, api>>
sessVars == <<sessPc, sessErr, first_connect, awaiting, initial_uri>>
sockVars == <<wsState, inbox, agen, wireSeq>>
pingVars == <<ping_loop, pingPc, pingCancel>>
discVars == <<discPc, discWs, discTask>>
stepVars == <<lastFrame, lastResp, lastOpen, acks, emitted, emitter, lastUpgrade,
              lastHandler, lastSign>>

\* The state of the functions and classes that are checked by themselves.
sideVars == <<uri, ws_cookie, live, proxy, legacy>>

engineVars == <<clientVars, startVars, sessVars, sockVars, pingVars, discVars,
                stepVars, connection_generator, obs>>

vars == <<engineVars, sideVars>>

NoResp == [is_first |-> FALSE, needs_ack |-> FALSE, internal_ext |-> "", cursor |-> "",
           messages |-> <<>>]

\* A step that answers no upgrade request: the session it was made for (0:
\* none), the status and the Handshake-Msg header of the answer, the exception
\* raised for it and, on the first connect, the initial response as the
\* signing service returned it and process_connect_events.
NoUpgrade == [session |-> 0, status |-> "None", handshake_msg |-> "None",
              error |-> "None", message |-> "None",
              initial |-> NoResp, process_connect_events |-> TRUE]

\* A step that handles no frame and emits nothing.
QuietFrame ==
  /\ lastFrame' = NoFrame
  /\ lastResp' = NoResp
  /\ lastOpen' = FALSE
  /\ acks' = <<>>
  /\ emitted' = <<>>
  /\ emitter' = 0
  /\ lastHandler' = NoHandler

\* The host of WebDefaults.tiktok_sign_url, web_settings.py:127.
SignHost == "tiktok.eulerstream.com"

\* What a call of fetch_signed_websocket finds: the sessionid cookie of the
\* jar (set_session, web_base.py:137-153), the authenticate_websocket
\* attribute of the HTTP client, the environment variable
\* WHITELIST_AUTHENTICATED_SESSION_ID_HOST, and the answer of the signing
\* service: no connection, or a status code, a body (empty, a JSON document,
\* a protobuf) and the headers X-Set-TT-Cookie and RateLimit-Remaining.
SignInputs ==
  [cookie_sessionid : {"None", "sid"},
   authenticate_websocket : BOOLEAN,
   whitelist : {"None", SignHost, "other.host"},
   connect_error : BOOLEAN,
   status_code : {200, 429, 500},
   data : {"", "json", "proto"},
   x_set_tt_cookie : {"None", "ttwid=1"},
   rate_limit_remaining : {"None", "5"}]

\* The request sent to the signing service: whether one was sent, its
\* session_id parameter and the sessionid cookie of its Cookie header.
NoRequest == [sent |-> FALSE, session_id |-> "None", cookie_sessionid |-> "None"]

\* No signed handshake was made by the step.
NoSign == [call |-> 0,
           input |-> [cookie_sessionid |-> "None", authenticate_websocket |-> FALSE,
                      whitelist |-> "None", connect_error |-> FALSE, status_code |-> 200,
                      data |-> "", x_set_tt_cookie |-> "None",
                      rate_limit_remaining |-> "None"],
           out |-> [error |-> "None", reason |-> "None", retry_after |-> "None",
                    request |-> NoRequest]]

\* The checks on the answer of the signing service, in the order of
\* fetch_signed_websocket.py:93-124. At status 429 response.json() decodes
\* the body, and SignatureRateLimitError is then constructed without the
\* keyword argument `response` that its __init__ requires (errors.py:180),
\* which raises TypeError.
sign_response(in) ==
  IF in.status_code = 429
  THEN IF in.data = "json"
       THEN [error |-> "TypeError", reason |-> "None"]
       ELSE [error |-> "JSONDecodeError", reason |-> "None"]
  ELSE IF in.data = ""
  THEN [error |-> "SignAPIError", reason |-> "EMPTY_PAYLOAD"]
  ELSE IF in.status_code # 200
  THEN [error |-> "SignAPIError", reason |-> "SIGN_NOT_200"]
  ELSE IF in.x_set_tt_cookie = "None"
  THEN [error |-> "SignAPIError", reason |-> "EMPTY_COOKIES"]
  ELSE [error |-> "None", reason |-> "None"]

\* FetchSignedWebSocketRoute.__call__, fetch_signed_websocket.py:36-135, as
\* start() calls it (no session_id argument). The whitelist is consulted only
\* when authenticate_websocket is set; the request built by web_base.py:
\* 240-246 carries the cookie jar, whatever the outcome of that test.
fetch_signed_websocket(in) ==
  LET session_id == in.cookie_sessionid
      gated == in.authenticate_websocket /\ session_id # "None"
      blocked == gated /\ in.whitelist # SignHost
      request == [sent |-> TRUE,
                  session_id |-> IF gated THEN session_id ELSE "None",
                  cookie_sessionid |-> in.cookie_sessionid]
      answer == sign_response(in)
  IN
  IF blocked
  THEN [error |-> "AuthenticatedWebSocketConnectionError", reason |-> "AUTHENTICATED_WS",
        retry_after |-> "None", request |-> NoRequest]
  ELSE IF in.connect_error
  THEN [error |-> "SignAPIError", reason |-> "CONNECT_ERROR", retry_after |-> "None",
        request |-> request]
  ELSE [error |-> answer.error, reason |-> answer.reason, retry_after |-> "None",
        request |-> request]

\* What fetch_signed_websocket returns when no check fails,
\* fetch_signed_websocket.py:124-135: the body of the answer is put in a push
\* frame with log_id -1 and payload_type "msg", and the envelope that
\* extract_webcast_response_message decodes from that frame is returned as it
\* is; a body is written here as the envelope it encodes.
signed_push_frame(response_data) ==
  [log_id |-> -1, payload_type |-> "msg", payload |-> response_data]

extract_webcast_response_message(push_frame) == push_frame.payload

signed_initial_response(response_data) ==
  extract_webcast_response_message(signed_push_frame(response_data))

\* The exceptions fetch_signed_websocket ends with.
SignErrors == {fetch_signed_websocket(in).error : in \in SignInputs} \ {"None"}

Quiet ==
  /\ QuietFrame
  /\ lastUpgrade' = NoUpgrade
  /\ lastSign' = NoSign
  /\ UNCHANGED sideVars

Finished == {"done", "raised", "cancelled"}

\* The cursor and the internal_ext that a session advertises: those of the
\* URI of its WebcastConnect, which the constructor builds from the initial
\* response (ws_connect.py:40-47) and every upgrade request of __aiter__ is
\* made with (ws_connect.py:77-82). The initial response of the model has an
\* empty internal_ext.
advertised(s) == uri_params([cursor |-> initial_uri[s].cursor, internal_ext |-> ""])

\* WebcastWSClient.connected: self.ws and self.ws.open, for the given values of
\* _connection_generator and of the generators' _ws.
ConnectedIn(cg, ws) == cg # 0 /\ ws[cg] = "open"

connected == ConnectedIn(connection_generator, wsState)

NoObs == [connects |-> 0, disconnects |-> 0, protoBeforeConnect |-> FALSE,
          afterDisconnect |-> FALSE, liveEnds |-> 0, afterLiveEnd |-> FALSE]

ProtoEvents == {"CommentEvent", "SocialEvent", "ControlEvent"}

\* The record of a session after it has emitted the events evs, in order.
RECURSIVE Observe(_, _)
Observe(o, evs) ==
  IF evs = <<>> THEN o
  ELSE LET e == Head(evs).type IN
       Observe([connects |-> IF e = "ConnectEvent" /\ o.connects < 2
                             THEN o.connects + 1 ELSE o.connects,
                disconnects |-> o.disconnects + (IF e = "DisconnectEvent" THEN 1 ELSE 0),
                protoBeforeConnect |-> o.protoBeforeConnect
                                         \/ (e \in ProtoEvents /\ o.connects = 0),
                afterDisconnect |-> o.afterDisconnect \/ o.disconnects > 0,
                liveEnds |-> IF e = "LiveEndEvent" THEN 1 ELSE o.liveEnds,
                afterLiveEnd |-> o.afterLiveEnd
                                   \/ (e = "DisconnectEvent" /\ o.liveEnds > 0)],
               Tail(evs))

\* build_webcast_uri has not been called.
NoUriCall == [given |-> <<>>, now |-> <<>>, returned |-> <<>>]

\* get_ws_cookie_string has not been called.
NoCookieCall == [cookies |-> <<>>, authenticate_websocket |-> FALSE, called |-> FALSE,
                 error |-> "None", cookie_values |-> <<>>, cookie_string |-> ""]

\* No call has read the unique id of the client.
NoLiveCall == [op |-> "None", argument |-> <<>>, error |-> "None", unique_id |-> ""]

NoLive == [constructed |-> "", is_userid |-> FALSE, unique_id |-> "", calls |-> 0,
           last |-> NoLiveCall]

\* The members of RotationSetting, proxy.py:6-19, and the int 1 that
\* ProxyContainer.__init__ has as default of mode. A member of an enum.Enum is
\* equal to itself only, never to an int.
RotationSetting ==
  [CONSECUTIVE |-> [type |-> "RotationSetting", value |-> 1],
   RANDOM      |-> [type |-> "RotationSetting", value |-> 2],
   PINNED      |-> [type |-> "RotationSetting", value |-> 3]]

DefaultMode == [type |-> "int", value |-> 1]

\* No call has been made on the container. A proxy is named by its place in
\* self.proxies; <<>> is None.
NoProxyCall == [op |-> "None", result |-> <<>>]

NoProxy == [count |-> 0, mode |-> DefaultMode, index |-> 0, pin |-> 0,
            before_pinned |-> DefaultMode, enabled |-> TRUE,
            constructed |-> DefaultMode, only_get |-> TRUE, gets |-> 0,
            pinned |-> <<>>, calls |-> 0, last |-> NoProxyCall]

\* No call has been made on the request-polling client.
NoLegacyCall == [op |-> "None", raised |-> "None", in_progress |-> FALSE,
                 was_connected |-> FALSE]

NoLegacy == [connecting |-> FALSE, connected |-> FALSE, at |-> "None",
             fetch_room_info_on_connect |-> FALSE, enable_extended_gift_info |-> FALSE,
             calls |-> 0, last |-> NoLegacyCall]

\* Nothing outside the session engine has been called.
SideIdle ==
  /\ uri = NoUriCall
  /\ ws_cookie = NoCookieCall
  /\ live = NoLive
  /\ proxy = NoProxy
  /\ legacy = NoLegacy

\* The client after construction.
EngineInit ==
  /\ room_id = "None"
  /\ room_info = "None"
  /\ gift_info = "None"
  /\ event_loop_task = 0
  /\ ping_loop = 0
  /\ connection_generator = 0
  /\ startPc = [k \in Starts |-> "idle"]
  /\ startErr = [k \in Starts |-> "None"]
  /\ base_ex = [k \in Starts |-> "None"]
  /\ api = [k \in Starts |-> "start"]
  /\ sessPc = [s \in Starts |-> "unborn"]
  /\ sessErr = [s \in Starts |-> "None"]
  /\ first_connect = [s \in Starts |-> TRUE]
  /\ initial_uri = [s \in Starts |-> NoUri]
  /\ wsState = [s \in Starts |-> "None"]
  /\ inbox = [s \in Starts |-> <<>>]
  /\ agen = [s \in Starts |-> "none"]
  /\ awaiting = [s \in Starts |-> 0]
  /\ pingPc = [p \in Pings |-> "unborn"]
  /\ pingCancel = [p \in Pings |-> FALSE]
  /\ discPc = [d \in Discs |-> "unborn"]
  /\ discWs = [d \in Discs |-> 0]
  /\ discTask = [d \in Discs |-> 0]
  /\ wireSeq = 0
  /\ lastFrame = NoFrame
  /\ lastResp = NoResp
  /\ lastOpen = FALSE
  /\ acks = <<>>
  /\ emitted = <<>>
  /\ emitter = 0
  /\ lastUpgrade = NoUpgrade
  /\ lastHandler = NoHandler
  /\ lastSign = NoSign
  /\ obs = [s \in Starts |-> NoObs]

Init == EngineInit /\ SideIdle

\* ------------------------------------------------- TikTokLiveClient.start
\* The awaits of start(), in order.  fetch_live_check, fetch_room_info and
\* fetch_gift_info decide which of the optional ones are made.
StageOrder == <<"room_id_html", "room_id_api", "is_live", "room_info", "gift_info",
                "signed_websocket">>

StageIndex(stage) == CHOOSE i \in 1..Len(StageOrder) : StageOrder[i] = stage

\* The awaits that may follow the one at `stage` when it succeeds: the optional
\* side-calls, made or skipped, and the signed handshake.  fetch_room_info and
\* fetch_gift_info are drawn together: both side-calls are made or neither.
Following(stage) ==
  IF stage = "room_info" THEN {"gift_info"}
  ELSE { StageOrder[j] : j \in {i \in 1..Len(StageOrder) :
                                  /\ i > StageIndex(stage)
                                  /\ StageOrder[i] \notin {"room_id_api", "gift_info"}} }

\* start() is called, by the consumer or by connect(): client.py:133-140 and
\* 203.
StartCallAs(k, how) ==
  /\ startPc[k] = "idle"
  /\ api' = [api EXCEPT ![k] = how]
  /\ UNCHANGED base_ex
  /\ \A j \in Starts : j < k => startPc[j] # "idle"
  /\ IF connected
     THEN /\ startPc' = [startPc EXCEPT ![k] = "raised"]
          /\ startErr' = [startErr EXCEPT ![k] = "AlreadyConnectedError"]
          /\ UNCHANGED room_id
     ELSE /\ UNCHANGED startErr
          /\ \E room_id_given \in BOOLEAN :
               IF room_id_given
               THEN /\ room_id' = "room"
                    /\ \E nxt \in Following("room_id_api") :
                         startPc' = [startPc EXCEPT ![k] = nxt]
               ELSE /\ UNCHANGED room_id
                    /\ startPc' = [startPc EXCEPT ![k] = "room_id_html"]
  /\ Quiet
  /\ UNCHANGED <<room_info, gift_info, event_loop_task, sessVars, sockVars, pingVars,
                 discVars, connection_generator, obs>>

\* The consumer calls start().
StartCall(k) == StartCallAs(k, "start")

\* The consumer calls connect(), which awaits start(): client.py:203.
ConnectCall(k) == StartCallAs(k, "connect")

\* The exceptions an await of start() other than the signed handshake ends
\* with: client.py:140-165. Those of the HTML stage are the ones raised inside
\* the try of client.py:139-140: by the resolver (UserOfflineError,
\* UserNotFoundError, FailedParseRoomIdError of fetch_room_id_live_html.py:
\* 59-83, an error of the request) or by int() of a result that holds no room
\* id (TypeError).
StartErrors(stage) ==
  CASE stage = "room_id_html" -> {"UserOfflineError", "UserNotFoundError",
                                  "FailedParseRoomIdError", "HTTPError", "TypeError"}
    [] stage = "room_id_api" -> {"UserNotFoundError", "FailedParseRoomIdError"}
    [] stage = "is_live" -> {"UserOfflineError"}
    [] OTHER -> {"HTTPError"}

\* The except clause of the HTML stage, client.py:141-148: the exception is
\* raised to the caller, or the REST resolver is called.
room_id_except_always_fallback(ex) == "fallback"

room_id_except(ex) ==
  IF ex \in {"UserOfflineError", "UserNotFoundError"} THEN "raise" ELSE "fallback"

StartStage(k) ==
  /\ startPc[k] \in {"room_id_html", "room_id_api", "is_live", "room_info", "gift_info"}
  /\ LET stage == startPc[k] IN
     \E outcome \in {"ok"} \cup StartErrors(stage) :
       LET handling == IF outcome = "ok" THEN "ok"
                       ELSE IF stage = "room_id_html" THEN room_id_except(outcome)
                       ELSE "raise" IN
       IF handling = "ok"
       THEN /\ \E nxt \in Following(stage) : startPc' = [startPc EXCEPT ![k] = nxt]
            /\ UNCHANGED startErr
            /\ base_ex' = [base_ex EXCEPT ![k] = "None"]
            /\ room_id' = IF stage \in {"room_id_html", "room_id_api"}
                          THEN "room" ELSE room_id
            /\ room_info' = IF stage = "room_info" THEN "info" ELSE room_info
            /\ gift_info' = IF stage = "gift_info" THEN "gifts" ELSE gift_info
       ELSE IF handling = "fallback"
       THEN /\ startPc' = [startPc EXCEPT ![k] = "room_id_api"]
            /\ base_ex' = [base_ex EXCEPT ![k] = outcome]
            /\ UNCHANGED <<startErr, room_id, room_info, gift_info>>
       ELSE /\ startPc' = [startPc EXCEPT ![k] = "raised"]
            /\ startErr' = [startErr EXCEPT ![k] = outcome]
            /\ base_ex' = [base_ex EXCEPT ![k] = "None"]
            /\ UNCHANGED <<room_id, room_info, gift_info>>
  /\ UNCHANGED api
  /\ Quiet
  /\ UNCHANGED <<event_loop_task, sessVars, sockVars, pingVars, discVars,
                 connection_generator, obs>>

\* The session task stored after the await of fetch_signed_websocket:
\* create_task follows the await (client.py:168-179), so an exception of the
\* handshake leaves the stored task as it was.
created_task_before_sign(outcome, k, stored) == k

created_task(outcome, k, stored) == IF outcome = "ok" THEN k ELSE stored

\* fetch_signed_websocket returns or raises; on success the session task is
\* created: client.py:167-181.
StartSigned(k) ==
  /\ startPc[k] = "signed_websocket"
  /\ \E in \in SignInputs :
       LET out == fetch_signed_websocket(in)
           outcome == IF out.error = "None" THEN "ok" ELSE out.error IN
       /\ lastSign' = [call |-> k, input |-> in, out |-> out]
       /\ UNCHANGED sideVars
       /\ IF outcome = "ok"
          THEN /\ event_loop_task' = created_task(outcome, k, event_loop_task)
               /\ sessPc' = [sessPc EXCEPT ![k] = "created"]
               /\ \E initial \in InitialUris :
                    initial_uri' = [initial_uri EXCEPT ![k] = initial]
               /\ startPc' = [startPc EXCEPT ![k] = "returned"]
               /\ UNCHANGED startErr
          ELSE /\ startPc' = [startPc EXCEPT ![k] = "raised"]
               /\ startErr' = [startErr EXCEPT ![k] = outcome]
               /\ event_loop_task' = created_task(outcome, k, event_loop_task)
               /\ UNCHANGED <<sessPc, initial_uri>>
  /\ UNCHANGED <<base_ex, api>>
  /\ QuietFrame
  /\ lastUpgrade' = NoUpgrade
  /\ UNCHANGED <<room_id, room_info, gift_info, sessErr, first_connect, awaiting,
                 sockVars, pingVars, discVars, connection_generator, obs>>

\* ----------------------------------------------- TikTokLiveClient.connect
\* `await task` in connect(), client.py:205-216, once the session task has
\* finished in `state` with exception `err`: the exception of the task is
\* raised out of connect(); its cancellation is caught and connect() returns
\* the task, as it does when the task returned.
connect_await_reraise_cancelled(state, err) ==
  IF state = "done" THEN [pc |-> "connect_returned", err |-> "None"]
  ELSE [pc |-> "connect_raised", err |-> IF state = "raised" THEN err ELSE "CancelledError"]

connect_await(state, err) ==
  IF state = "raised" THEN [pc |-> "connect_raised", err |-> err]
  ELSE [pc |-> "connect_returned", err |-> "None"]

\* The session task that connect() awaits has finished: connect() resumes.
\* The consumer's callback, if any, has returned or was scheduled.
ConnectResume(k) ==
  /\ api[k] = "connect"
  /\ startPc[k] = "returned"
  /\ sessPc[k] \in Finished
  /\ LET result == connect_await(sessPc[k], sessErr[k]) IN
       /\ startPc' = [startPc EXCEPT ![k] = result.pc]
       /\ startErr' = [startErr EXCEPT ![k] = result.err]
  /\ Quiet
  /\ UNCHANGED <<clientVars, base_ex, api, sessVars, sockVars, pingVars, discVars,
                 connection_generator, obs>>

\* ------------------------------------------------- inputs from the network
\* The peer numbers its frames: the n-th frame on the wire has log id LogId(n).
LogId(n) == 100 + n

Exts == {"", "E"}
Cursors == {"c0", "c1"}
MsgSeqs(kinds) == UNION {[1..n -> kinds] : n \in 0..MaxMsgs}

\* The envelopes drawn for a session: one varies the ack fields and the
\* cursor and carries no message, or it carries messages and asks for no ack.
AckEnvelopes == [is_first : BOOLEAN, needs_ack : BOOLEAN, internal_ext : Exts,
                 cursor : Cursors, messages : {<<>>}]
MessageEnvelopes == [is_first : BOOLEAN, needs_ack : {FALSE}, internal_ext : {""},
                     cursor : {"c1"}, messages : MsgSeqs(SessionMessages)]
Envelopes == AckEnvelopes \cup MessageEnvelopes

FreeDiscs == {d \in Discs : discPc[d] = "unborn"}
FreePings == {p \in Pings : pingPc[p] = "unborn"}

\* A finished heartbeat task that neither _ping_loop nor an awaiting session
\* refers to is dropped, and its identifier is free again.
Collect(pc, loop, aw) ==
  [p \in Pings |-> IF pc[p] \in {"done", "cancelled"}
                      /\ p # loop /\ \A s \in Starts : aw[s] # p
                   THEN "unborn" ELSE pc[p]]

\* The k lowest free disconnect slots.
RECURSIVE Lowest(_, _)
Lowest(S, k) ==
  IF k = 0 \/ S = {} THEN {}
  ELSE LET m == CHOOSE x \in S : \A y \in S : x <= y IN {m} \cup Lowest(S \ {m}, k - 1)

\* ------------------------------------- WebcastWSClient.connect (loop body)
\* send_ack: the frame sent for an envelope, ws_client.py:90-117.
send_ack_raw_ext(resp, frame) ==
  <<[payload_type |-> "ack", log_id |-> frame.log_id, payload |-> resp.internal_ext]>>

send_ack(resp, frame) ==
  <<[payload_type |-> "ack", log_id |-> frame.log_id,
     payload |-> IF resp.internal_ext # "" THEN resp.internal_ext ELSE "-"]>>

\* restart_ping_loop, ws_client.py:303-304: the tasks on which cancel() has
\* been called, once the task that _ping_loop refers to (0: None) is cancelled.
restart_ping_loop_no_cancel(loop, cancelled) == cancelled

restart_ping_loop(loop, cancelled) ==
  IF loop # 0 THEN [cancelled EXCEPT ![loop] = TRUE] ELSE cancelled

\* One pair (frame, resp) yielded by the connection iterator is handled:
\* ws_client.py:269-295 and client.py:326-342.  `ws` is the value of the
\* generators' _ws at the yield.
Yielded(s, frame, resp, ws, h) ==
  LET open == ConnectedIn(connection_generator, ws)
      newp == CHOOSE p \in FreePings : \A q \in FreePings : p <= q
      \* restart_ping_loop, ws_client.py:297-306
      loop1 == IF resp.is_first THEN newp ELSE ping_loop
      cancel1 == IF resp.is_first THEN restart_ping_loop(ping_loop, pingCancel)
                 ELSE pingCancel
      pc1 == IF resp.is_first THEN [pingPc EXCEPT ![newp] = "created"] ELSE pingPc
      events == parse_webcast_response(resp)
      run == emit(events, h)
      \* the events of a message are parsed, and its disconnect task is
      \* scheduled, when the first of them is asked for (client.py:344-361)
      parsed == IF run.raised THEN run.delivered[Len(run.delivered)].msg
                ELSE Len(resp.messages)
      tasks == Lowest(FreeDiscs, ScheduledUpTo(resp, parsed))
      pingDone == loop1 # 0 /\ pc1[loop1] \in {"done", "cancelled"}
      outcome ==
        \* AttributeError: send_ack reads webcast_push_frame.log_id of None
        IF resp.needs_ack /\ open /\ frame = NoFrame THEN "raise"
        \* the exception of a subscriber's handler leaves self.emit
        ELSE IF run.raised THEN "raise"
        \* still connected: back to the inbound loop
        ELSE IF open THEN "continue"
        \* AttributeError: self._ping_loop.done() of None
        ELSE IF loop1 = 0 THEN "raise"
        \* break; reset the state; _ws_client_loop emits DisconnectEvent
        ELSE IF pingDone THEN "finish"
        \* break; cancel the heartbeat task and await it
        ELSE "wait"
      acked == resp.needs_ack /\ open /\ frame # NoFrame
      yielded == ~(resp.needs_ack /\ open /\ frame = NoFrame)
      out == IF ~yielded THEN <<>>
             ELSE IF outcome = "finish"
             THEN events \o <<[type |-> "DisconnectEvent", msg |-> 0]>>
             ELSE run.delivered
      loop2 == IF outcome = "finish" THEN 0 ELSE loop1
      aw2 == IF outcome = "wait" THEN [awaiting EXCEPT ![s] = loop1] ELSE awaiting
      cancel2 == IF outcome = "wait" THEN [cancel1 EXCEPT ![loop1] = TRUE] ELSE cancel1
  IN
  /\ Scheduled(resp) <= Cardinality(FreeDiscs)
  /\ h.index <= Len(events)
  /\ lastHandler' = h
  /\ lastFrame' = frame
  /\ lastResp' = resp
  /\ lastOpen' = open
  /\ emitter' = s
  /\ emitted' = out
  /\ obs' = [obs EXCEPT ![s] = Observe(@, out)]
  /\ acks' = IF acked THEN send_ack(resp, frame) ELSE <<>>
  /\ agen' = [agen EXCEPT ![s] = IF outcome = "continue" THEN @ ELSE "abandoned"]
  /\ discPc' = IF ~yielded THEN discPc
               ELSE [d \in Discs |-> IF d \in tasks THEN "created" ELSE discPc[d]]
  /\ ping_loop' = loop2
  /\ awaiting' = aw2
  /\ pingPc' = Collect(pc1, loop2, aw2)
  /\ pingCancel' = [p \in Pings |-> cancel2[p] /\ pingPc'[p] # "unborn"]
  /\ connection_generator' = IF outcome = "finish" THEN 0 ELSE connection_generator
  /\ sessPc' = [sessPc EXCEPT ![s] =
                  CASE outcome = "raise" -> "raised"
                    [] outcome = "continue" -> "recv"
                    [] outcome = "finish" -> "done"
                    [] OTHER -> "ping_wait"]
  /\ sessErr' = [sessErr EXCEPT ![s] =
                   IF outcome # "raise" THEN @
                   ELSE IF yielded THEN "HandlerError" ELSE "AttributeError"]

\* What the last step did for its pair, in the order of the loop body: send_ack
\* is awaited at ws_client.py:276-277, and only then `yield webcast_response`
\* (line 280) hands the envelope to _ws_client_loop, which emits its events
\* (client.py:336-338).
step_effects ==
  [i \in 1..Len(acks) |-> "send_ack"] \o [i \in 1..Len(emitted) |-> "emit"]

\* The session task starts: WebcastWSClient.connect builds the WebcastConnect,
\* whose constructor builds the URI (ws_connect.py:40-45), and the upgrade
\* request is sent (ws_client.py:224-269, ws_connect.py:75-82).  When the URI
\* cannot be built the constructor raises: _connection_generator is not
\* assigned and the exception ends the session task.
SessionBegin(s) ==
  /\ sessPc[s] = "created"
  /\ LET err == build_webcast_uri(initial_uri[s]) IN
     IF err = "None"
     THEN /\ connection_generator' = s
          /\ sessPc' = [sessPc EXCEPT ![s] = "upgrading"]
          /\ UNCHANGED sessErr
     ELSE /\ sessPc' = [sessPc EXCEPT ![s] = "raised"]
          /\ sessErr' = [sessErr EXCEPT ![s] = err]
          /\ UNCHANGED connection_generator
  /\ Quiet
  /\ UNCHANGED <<clientVars, startVars, first_connect, awaiting, initial_uri, sockVars,
                 pingVars, discVars, obs>>

\* The answers to an upgrade request: the status and, when the upgrade is
\* refused, the Handshake-Msg header ("None": absent).
UpgradeAnswers ==
  {a \in [status : {"101", "200", "403"}, handshake_msg : {"None", "blocked"}] :
     a.status = "101" => a.handshake_msg = "None"}

\* The exception raised for a refused upgrade: ws_connect.py:107-115.
upgrade_error_reraise(answer) ==
  [error |-> "InvalidStatusCode", message |-> answer.status]

upgrade_error(answer) ==
  IF answer.status = "200"
  THEN [error |-> "WebcastBlocked200Error",
        message |-> IF answer.handshake_msg = "None" THEN "an unknown reason"
                    ELSE answer.handshake_msg]
  ELSE [error |-> "InvalidStatusCode", message |-> answer.status]

\* The initial response handed to the connection iterator: ws_client.py:230-232.
initial_response_keep_messages(initial, process_connect_events) == initial

initial_response(initial, process_connect_events) ==
  IF process_connect_events THEN initial ELSE [initial EXCEPT !.messages = <<>>]

\* What __aiter__ does once the `async with` is entered, given its flag
\* first_connect: whether it yields the initial response, and the flag
\* afterwards, ws_connect.py:86-89.
after_connect_yield_always(first) == [yield_initial |-> TRUE, first_connect |-> FALSE]

after_connect(first) == [yield_initial |-> first, first_connect |-> FALSE]

\* The upgrade request is answered: ws_connect.py:82-89 and 107-119. The
\* subscribers of the events of the initial response are drawn from H.
UpgradeWith(s, H) ==
  /\ sessPc[s] = "upgrading"
  /\ \E answer \in UpgradeAnswers :
       LET up == [NoUpgrade EXCEPT !.session = s, !.status = answer.status,
                                   !.handshake_msg = answer.handshake_msg] IN
       IF answer.status = "101"
       THEN LET ws == [wsState EXCEPT ![s] = "open"] IN
            /\ wsState' = ws
            /\ inbox' = [inbox EXCEPT ![s] = <<>>]
            /\ first_connect' = [first_connect EXCEPT ![s] =
                                   after_connect(first_connect[s]).first_connect]
            /\ UNCHANGED wireSeq
            /\ IF after_connect(first_connect[s]).yield_initial
               THEN \E body \in Envelopes, process_connect_events \in BOOLEAN :
                      \* the initial response is the one the URI was built from
                      LET initial == [signed_initial_response(body) EXCEPT
                                        !.cursor = initial_uri[s].cursor] IN
                      /\ body.internal_ext = ""
                      /\ body.cursor = "c1"
                      /\ lastUpgrade' =
                           [up EXCEPT !.initial = initial,
                                      !.process_connect_events = process_connect_events]
                      /\ \E h \in H :
                           Yielded(s, NoFrame,
                                   initial_response(initial, process_connect_events),
                                   ws, h)
               ELSE /\ sessPc' = [sessPc EXCEPT ![s] = "recv"]
                    /\ QuietFrame
                    /\ lastUpgrade' = up
                    /\ UNCHANGED <<sessErr, awaiting, agen, pingVars, discPc,
                                   connection_generator, obs>>
       ELSE LET raised == upgrade_error(answer) IN
            /\ sessPc' = [sessPc EXCEPT ![s] = "raised"]
            /\ sessErr' = [sessErr EXCEPT ![s] = raised.error]
            /\ wsState' = [wsState EXCEPT ![s] = "None"]
            /\ QuietFrame
            /\ lastUpgrade' = [up EXCEPT !.error = raised.error, !.message = raised.message]
            /\ UNCHANGED <<first_connect, awaiting, inbox, agen, wireSeq, pingVars,
                           discPc, connection_generator, obs>>
  /\ lastSign' = NoSign
  /\ UNCHANGED sideVars
  /\ UNCHANGED <<clientVars, startVars, initial_uri, discWs, discTask>>

\* The upgrade request is answered to a consumer whose handlers all return.
Upgrade(s) == UpgradeWith(s, {NoHandler})

\* The upgrade request is answered to a consumer whose handlers may raise.
UpgradeRaising(s) == UpgradeWith(s, Handlers)

\* recv() returns a message: ws_connect.py:92-105. The subscribers of the
\* events of the envelope are drawn from H. `decodes` is whether the bytes
\* decode: when they do not, WebcastPushFrame().parse (line 95) or
\* extract_webcast_response_message (line 99 or 104; the gzip read of
\* ws_utils.py:99-102 included) raises; no except clause of __aiter__ matches,
\* so the exception leaves the `async with`, whose exit closes the protocol.
RecvFrameWith(s, H) ==
  /\ sessPc[s] = "recv"
  /\ inbox[s] # <<>>
  /\ inbox' = [inbox EXCEPT ![s] = Tail(@)]
  /\ \E payload_type \in {"msg", "hb"}, decodes \in BOOLEAN :
       LET frame == [log_id |-> LogId(Head(inbox[s])), seq |-> Head(inbox[s]),
                     payload_type |-> payload_type, decodes |-> decodes] IN
       IF ~decodes \/ payload_type # "msg"
       THEN /\ lastFrame' = frame
            /\ lastResp' = NoResp
            /\ lastOpen' = connected
            /\ acks' = <<>>
            /\ emitted' = <<>>
            /\ emitter' = s
            /\ lastHandler' = NoHandler
            /\ IF decodes
               THEN UNCHANGED <<sessPc, sessErr, wsState>>
               ELSE /\ sessPc' = [sessPc EXCEPT ![s] = "aexit_wait"]
                    /\ sessErr' = [sessErr EXCEPT ![s] = "DecodeError"]
                    /\ wsState' = [wsState EXCEPT ![s] =
                                     IF @ = "open" THEN "closing" ELSE @]
            /\ UNCHANGED <<awaiting, agen, pingVars, discPc,
                           connection_generator, obs>>
       ELSE /\ \E resp \in Envelopes, h \in H : Yielded(s, frame, resp, wsState, h)
            /\ UNCHANGED wsState
  /\ lastUpgrade' = NoUpgrade
  /\ lastSign' = NoSign
  /\ UNCHANGED sideVars
  /\ UNCHANGED <<clientVars, startVars, first_connect, initial_uri, wireSeq,
                 discWs, discTask>>

\* A message arrives for a consumer whose handlers all return.
RecvFrame(s) == RecvFrameWith(s, {NoHandler})

\* A message arrives for a consumer whose handlers may raise.
RecvFrameRaising(s) == RecvFrameWith(s, Handlers)

\* recv() finds the connection closed and nothing left to read: the inbound
\* loop ends (close code OK) or raises ConnectionClosedError; after the
\* finally block the while-loop of __aiter__ runs again: ws_connect.py:77-119.
RecvClosed(s) ==
  /\ sessPc[s] = "recv"
  /\ inbox[s] = <<>>
  /\ wsState[s] \in {"closed_ok", "closed_err"}
  /\ wsState' = [wsState EXCEPT ![s] = "None"]
  /\ IF wsState[s] = "closed_ok"
     THEN /\ sessPc' = [sessPc EXCEPT ![s] = "upgrading"]
          /\ UNCHANGED sessErr
     ELSE /\ sessPc' = [sessPc EXCEPT ![s] = "raised"]
          /\ sessErr' = [sessErr EXCEPT ![s] = "ConnectionClosedError"]
  /\ Quiet
  /\ UNCHANGED <<clientVars, startVars, first_connect, awaiting, initial_uri, inbox, agen,
                 wireSeq, pingVars, discVars, connection_generator, obs>>

\* The protocol that the exit of the `async with` closes is closed: the
\* finally block runs and the exception of the decoder leaves __aiter__, the
\* `async for` of WebcastWSClient.connect and the session task:
\* ws_connect.py:82 and 117-119, ws_client.py:269, client.py:326.
DecodeRaised(s) ==
  /\ sessPc[s] = "aexit_wait"
  /\ wsState[s] \in {"closed_ok", "closed_err"}
  /\ wsState' = [wsState EXCEPT ![s] = "None"]
  /\ sessPc' = [sessPc EXCEPT ![s] = "raised"]
  /\ Quiet
  /\ UNCHANGED <<clientVars, startVars, sessErr, first_connect, awaiting, initial_uri,
                 inbox, agen, wireSeq, pingVars, discVars, connection_generator, obs>>

\* The awaited heartbeat task has finished: ws_client.py:290-295, client.py:340-342.
TeardownResume(s) ==
  /\ sessPc[s] = "ping_wait"
  /\ pingPc[awaiting[s]] \in {"done", "cancelled"}
  /\ awaiting' = [awaiting EXCEPT ![s] = 0]
  /\ IF pingPc[awaiting[s]] = "done"
     THEN /\ ping_loop' = 0
          /\ connection_generator' = 0
          /\ sessPc' = [sessPc EXCEPT ![s] = "done"]
          /\ emitted' = <<[type |-> "DisconnectEvent", msg |-> 0]>>
          /\ emitter' = s
          /\ obs' = [obs EXCEPT ![s] = Observe(@, emitted')]
     ELSE \* awaiting a cancelled task raises CancelledError in the session task
          /\ sessPc' = [sessPc EXCEPT ![s] = "cancelled"]
          /\ emitted' = <<>>
          /\ emitter' = 0
          /\ UNCHANGED <<ping_loop, connection_generator, obs>>
  /\ pingPc' = Collect(pingPc, ping_loop', awaiting')
  /\ pingCancel' = [p \in Pings |-> pingCancel[p] /\ pingPc'[p] # "unborn"]
  /\ lastFrame' = NoFrame
  /\ lastResp' = NoResp
  /\ lastOpen' = FALSE
  /\ acks' = <<>>
  /\ lastUpgrade' = NoUpgrade
  /\ lastHandler' = NoHandler
  /\ lastSign' = NoSign
  /\ UNCHANGED sideVars
  /\ UNCHANGED <<clientVars, startVars, sessErr, first_connect, initial_uri, sockVars,
                 discVars>>

\* ------------------------------------------- WebcastWSClient._ping_loop_fn
\* The heartbeat task runs for the first time: ws_client.py:308-325.
PingStart(p) ==
  /\ pingPc[p] = "created"
  /\ pingPc' = Collect([pingPc EXCEPT ![p] =
                          IF pingCancel[p] THEN "cancelled"   \* cancelled before it ran
                          ELSE IF ~connected THEN "done"
                          ELSE "sleeping"], ping_loop, awaiting)
  /\ pingCancel' = [q \in Pings |-> pingCancel[q] /\ pingPc'[q] # "unborn"]
  /\ Quiet
  /\ UNCHANGED <<clientVars, startVars, sessVars, sockVars, ping_loop,
                 discVars, connection_generator, obs>>

\* The heartbeat's sleep ends, by the timer or by a cancellation:
\* ws_client.py:320-328.
PingWake(p) ==
  /\ pingPc[p] = "sleeping"
  /\ pingPc' = Collect([pingPc EXCEPT ![p] =
                          IF pingCancel[p] THEN "done"        \* CancelledError is caught
                          ELSE IF ~connected THEN "done"
                          ELSE "sleeping"], ping_loop, awaiting)
  /\ pingCancel' = [q \in Pings |-> pingCancel[q] /\ pingPc'[q] # "unborn"]
  /\ Quiet
  /\ UNCHANGED <<clientVars, startVars, sessVars, sockVars, ping_loop,
                 discVars, connection_generator, obs>>

\* ------------------------------------------ TikTokLiveClient.disconnect
\* The part of disconnect() after self._ws.disconnect(): client.py:241-260.
AwaitTask(d) ==
  LET t == event_loop_task IN
  IF t # 0 /\ sessPc[t] \notin Finished
  THEN /\ discPc' = [discPc EXCEPT ![d] = "task_wait"]
       /\ discTask' = [discTask EXCEPT ![d] = t]
       /\ UNCHANGED clientVars
  ELSE IF t # 0 /\ sessPc[t] = "cancelled"
  THEN \* CancelledError is not an Exception: it leaves disconnect()
       /\ discPc' = [discPc EXCEPT ![d] = "raised"]
       /\ UNCHANGED <<discTask, clientVars>>
  ELSE /\ discPc' = [discPc EXCEPT ![d] = "returned"]
       /\ event_loop_task' = 0
       /\ room_id' = "None"
       /\ room_info' = "None"
       /\ gift_info' = "None"
       /\ UNCHANGED discTask

\* disconnect() runs up to its first suspension: ws_client.py:119-129, then
\* client.py:241-260.
Disconnect(d) ==
  IF connected
  THEN /\ wsState' = [wsState EXCEPT ![connection_generator] = "closing"]
       /\ discPc' = [discPc EXCEPT ![d] = "close_wait"]
       /\ discWs' = [discWs EXCEPT ![d] = connection_generator]
       /\ UNCHANGED <<clientVars, discTask>>
  ELSE /\ AwaitTask(d)
       /\ UNCHANGED <<wsState, discWs>>

\* The consumer calls disconnect().
DisconnectCall(d) ==
  /\ discPc[d] = "unborn"
  /\ \A e \in Discs : e < d => discPc[e] # "unborn"
  /\ Disconnect(d)
  /\ Quiet
  /\ UNCHANGED <<startVars, sessVars, inbox, agen, wireSeq, pingVars,
                 connection_generator, obs>>

\* The disconnect task scheduled by handle_custom_event runs: client.py:432.
DisconnectRun(d) ==
  /\ discPc[d] = "created"
  /\ Disconnect(d)
  /\ Quiet
  /\ UNCHANGED <<startVars, sessVars, inbox, agen, wireSeq, pingVars,
                 connection_generator, obs>>

\* ws.close() has returned: client.py:241.
DisconnectClosed(d) ==
  /\ discPc[d] = "close_done"
  /\ AwaitTask(d)
  /\ Quiet
  /\ UNCHANGED <<startVars, sessVars, sockVars, pingVars, discWs,
                 connection_generator, obs>>

\* The awaited session task has finished: client.py:244-260.
DisconnectResume(d) ==
  /\ discPc[d] = "task_wait"
  /\ sessPc[discTask[d]] \in Finished
  /\ IF sessPc[discTask[d]] = "cancelled"
     THEN /\ discPc' = [discPc EXCEPT ![d] = "raised"]
          /\ UNCHANGED clientVars
     ELSE /\ discPc' = [discPc EXCEPT ![d] = "returned"]
          /\ event_loop_task' = 0
          /\ room_id' = "None"
          /\ room_info' = "None"
          /\ gift_info' = "None"
  /\ Quiet
  /\ UNCHANGED <<startVars, sessVars, sockVars, pingVars, discWs, discTask,
                 connection_generator, obs>>

\* ------------------------------------------------------ the peer, the wire
\* The callers of ws.close() on generator s are woken.
Woken(s) ==
  [d \in Discs |-> IF discPc[d] = "close_wait" /\ discWs[d] = s
                   THEN "close_done" ELSE discPc[d]]

\* The peer sends a frame.
PeerSend(s) ==
  /\ wsState[s] \in {"open", "closing"}
  /\ wireSeq < MaxFrames
  /\ wireSeq' = wireSeq + 1
  /\ inbox' = [inbox EXCEPT ![s] = Append(@, wireSeq + 1)]
  /\ Quiet
  /\ UNCHANGED <<clientVars, startVars, sessVars, wsState, agen, pingVars, discVars,
                 connection_generator, obs>>

\* The peer closes the connection, with an OK close code or not, or the
\* connection is lost.
PeerClose(s) ==
  /\ wsState[s] = "open"
  /\ \E how \in {"closed_ok", "closed_err"} : wsState' = [wsState EXCEPT ![s] = how]
  /\ Quiet
  /\ UNCHANGED <<clientVars, startVars, sessVars, inbox, agen, wireSeq, pingVars,
                 discVars, connection_generator, obs>>

\* The closing handshake this side started ends: the peer answers it, or it
\* times out.
CloseComplete(s) ==
  /\ wsState[s] = "closing"
  /\ \E how \in {"closed_ok", "closed_err"} : wsState' = [wsState EXCEPT ![s] = how]
  /\ discPc' = Woken(s)
  /\ Quiet
  /\ UNCHANGED <<clientVars, startVars, sessVars, inbox, agen, wireSeq, pingVars,
                 discWs, discTask, connection_generator, obs>>

\* The abandoned async generator of __aiter__ is finalized: aclose() leaves
\* the `async with` (closing the protocol) and runs the finally block,
\* ws_connect.py:82 and 117-119.
AgenAclose(s) ==
  /\ agen[s] = "abandoned"
  /\ agen' = [agen EXCEPT ![s] = "aclosing"]
  /\ wsState' = [wsState EXCEPT ![s] = IF @ = "open" THEN "closing" ELSE @]
  /\ Quiet
  /\ UNCHANGED <<clientVars, startVars, sessVars, inbox, wireSeq, pingVars, discVars,
                 connection_generator, obs>>

AgenClosed(s) ==
  /\ agen[s] = "aclosing"
  /\ wsState[s] \in {"closed_ok", "closed_err"}
  /\ agen' = [agen EXCEPT ![s] = "closed"]
  /\ wsState' = [wsState EXCEPT ![s] = "None"]
  /\ Quiet
  /\ UNCHANGED <<clientVars, startVars, sessVars, inbox, wireSeq, pingVars, discVars,
                 connection_generator, obs>>

\* ------------------------------------------------------------ specifications
\* The steps of the event loop that deliver no events to handlers of the
\* consumer's choosing.
EngineRest ==
  \/ \E k \in Starts : StartStage(k)
  \/ \E k \in Starts : StartSigned(k)
  \/ \E s \in Starts : SessionBegin(s)
  \/ \E s \in Starts : RecvClosed(s)
  \/ \E s \in Starts : DecodeRaised(s)
  \/ \E s \in Starts : TeardownResume(s)
  \/ \E p \in Pings : PingStart(p)
  \/ \E p \in Pings : PingWake(p)
  \/ \E d \in Discs : DisconnectCall(d)
  \/ \E d \in Discs : DisconnectRun(d)
  \/ \E d \in Discs : DisconnectClosed(d)
  \/ \E d \in Discs : DisconnectResume(d)
  \/ \E s \in Starts : PeerSend(s)
  \/ \E s \in Starts : PeerClose(s)
  \/ \E s \in Starts : CloseComplete(s)
  \/ \E s \in Starts : AgenAclose(s)
  \/ \E s \in Starts : AgenClosed(s)

\* The steps of the event loop other than the consumer's calls of start().
Engine ==
  \/ \E s \in Starts : Upgrade(s)
  \/ \E s \in Starts : RecvFrame(s)
  \/ EngineRest

\* One session: the consumer calls start() once, and disconnect() at any time.
Next == StartCall(1) \/ Engine

Spec == Init /\ [][Next]_vars

\* Racing calls of start(): the consumer calls start() again at any time, up to
\* the point where the sessions' upgrade requests are answered.
NextRace ==
  \/ \E k \in Starts : StartCall(k)
  \/ \E k \in Starts : StartStage(k)
  \/ \E k \in Starts : StartSigned(k)
  \/ \E s \in Starts : SessionBegin(s)
  \/ \E s \in Starts : Upgrade(s)

SpecRace == Init /\ [][NextRace]_vars

\* The calls of start() up to the signed handshake.
NextSign ==
  \/ StartCall(1)
  \/ \E k \in Starts : StartStage(k)
  \/ \E k \in Starts : StartSigned(k)

SpecSign == Init /\ [][NextSign]_vars

\* One session of a consumer that calls connect(), and disconnect() at any
\* time.
NextConnect ==
  \/ ConnectCall(1)
  \/ \E k \in Starts : ConnectResume(k)
  \/ Engine

SpecConnect == Init /\ [][NextConnect]_vars

\* One session of a consumer whose handlers may raise, while the connection
\* stays up: up to the point where the peer or a disconnect() closes it.
NextHandlers ==
  \/ StartCall(1)
  \/ \E k \in Starts : StartStage(k)
  \/ \E k \in Starts : StartSigned(k)
  \/ \E s \in Starts : SessionBegin(s)
  \/ \E s \in Starts : UpgradeRaising(s)
  \/ \E s \in Starts : RecvFrameRaising(s)
  \/ \E s \in Starts : PeerSend(s)
  \/ \E p \in Pings : PingStart(p)

SpecHandlers == Init /\ [][NextHandlers]_vars

\* The event router alone: _parse_webcast_response applied to one envelope.
RouterEnvelopes == [is_first : BOOLEAN, needs_ack : {FALSE}, internal_ext : {""},
                    cursor : {"c1"}, messages : MsgSeqs(Messages)]

InitRouter ==
  /\ room_id = "None"
  /\ room_info = "None"
  /\ gift_info = "None"
  /\ event_loop_task = 0
  /\ ping_loop = 0
  /\ connection_generator = 0
  /\ startPc = [k \in Starts |-> "idle"]
  /\ startErr = [k \in Starts |-> "None"]
  /\ base_ex = [k \in Starts |-> "None"]
  /\ api = [k \in Starts |-> "start"]
  /\ sessPc = [s \in Starts |-> "unborn"]
  /\ sessErr = [s \in Starts |-> "None"]
  /\ first_connect = [s \in Starts |-> TRUE]
  /\ initial_uri = [s \in Starts |-> NoUri]
  /\ wsState = [s \in Starts |-> "None"]
  /\ inbox = [s \in Starts |-> <<>>]
  /\ agen = [s \in Starts |-> "none"]
  /\ awaiting = [s \in Starts |-> 0]
  /\ pingPc = [p \in Pings |-> "unborn"]
  /\ pingCancel = [p \in Pings |-> FALSE]
  /\ discPc = [d \in Discs |-> "unborn"]
  /\ discWs = [d \in Discs |-> 0]
  /\ discTask = [d \in Discs |-> 0]
  /\ wireSeq = 0
  /\ lastFrame = NoFrame
  /\ lastResp \in RouterEnvelopes
  /\ lastOpen = FALSE
  /\ acks = <<>>
  /\ emitted = <<>>
  /\ emitter = 0
  /\ lastUpgrade = NoUpgrade
  /\ lastHandler = NoHandler
  /\ lastSign = NoSign
  /\ obs = [s \in Starts |-> NoObs]
  /\ SideIdle

\* client.py:344-361 applied to the envelope, by the session task 1.
ParseResponse ==
  /\ emitter = 0
  /\ Scheduled(lastResp) <= Cardinality(FreeDiscs)
  /\ emitter' = 1
  /\ emitted' = parse_webcast_response(lastResp)
  /\ obs' = [obs EXCEPT ![1] = Observe(@, emitted')]
  /\ discPc' = [d \in Discs |->
                  IF d \in Lowest(FreeDiscs, Scheduled(lastResp)) THEN "created"
                  ELSE discPc[d]]
  /\ UNCHANGED <<clientVars, startVars, sessVars, sockVars, pingVars, discWs, discTask,
                 lastFrame, lastResp, lastOpen, acks, lastUpgrade, lastHandler,
                 lastSign, connection_generator, sideVars>>

SpecRouter == InitRouter /\ [][ParseResponse]_vars

\* ------------------------------------------ WebcastWSClient.get_ws_cookie_string
\* Cookie values are sequences of characters, so that `session_id in value`
\* is the test for a substring that it is in Python.
CookieChars == {"a", "b"}
CookieValues == UNION {[1..n -> CookieChars] : n \in 0..2}

contains(value, part) ==
  \E i \in 0..(Len(value) - Len(part)) : SubSeq(value, i + 1, i + Len(part)) = part

RECURSIVE str(_)
str(value) == IF value = <<>> THEN "" ELSE Head(value) \o str(Tail(value))

\* None, among values that are sequences of characters.
NoValue == <<"None">>

\* cookies.get(name): the value of the cookie, None when the jar has none.
cookies_get(cookies, name) ==
  IF \E i \in DOMAIN cookies : cookies[i][1] = name
  THEN (CHOOSE c \in {cookies[i] : i \in DOMAIN cookies} : c[1] = name)[2]
  ELSE NoValue

\* " ".join(cookie_values), each f"{key}={value};"
RECURSIVE join_cookies(_)
join_cookies(items) ==
  IF items = <<>> THEN ""
  ELSE IF Len(items) = 1 THEN items[1][1] \o "=" \o str(items[1][2]) \o ";"
  ELSE items[1][1] \o "=" \o str(items[1][2]) \o "; " \o join_cookies(Tail(items))

\* The cookies a jar keeps of the loop of ws_client.py:148-151.
RECURSIVE kept_by_name(_, _, _)
kept_by_name(cookies, session_id, authenticate_websocket) ==
  IF cookies = <<>> THEN <<>>
  ELSE LET rest == kept_by_name(Tail(cookies), session_id, authenticate_websocket) IN
       IF session_id \notin {NoValue, <<>>} /\ ~authenticate_websocket
          /\ Head(cookies)[1] = "sessionid"
       THEN rest ELSE <<Head(cookies)>> \o rest

RECURSIVE kept(_, _, _)
kept(cookies, session_id, authenticate_websocket) ==
  IF cookies = <<>> THEN <<>>
  ELSE LET rest == kept(Tail(cookies), session_id, authenticate_websocket) IN
       IF session_id \notin {NoValue, <<>>} /\ ~authenticate_websocket
          /\ contains(Head(cookies)[2], session_id)
       THEN rest ELSE <<Head(cookies)>> \o rest

\* get_ws_cookie_string, ws_client.py:131-176: the exception it raises
\* ("None": none), the list cookie_values and the string it returns.
get_ws_cookie_string(cookies, authenticate_websocket) ==
  LET session_id == cookies_get(cookies, "sessionid") IN
  IF authenticate_websocket /\ session_id = NoValue
  THEN [error |-> "ValueError", cookie_values |-> <<>>, cookie_string |-> ""]
  ELSE LET cookie_values == kept(cookies, session_id, authenticate_websocket) IN
       [error |-> "None", cookie_values |-> cookie_values,
        cookie_string |-> join_cookies(cookie_values)]

\* The jars: each of three cookies is absent or has a value, in the order in
\* which set_session sets them (web_base.py:147-153).
RECURSIVE Jars(_)
Jars(names) ==
  IF names = <<>> THEN {<<>>}
  ELSE LET rest == Jars(Tail(names)) IN
       rest \cup {<<<<Head(names), v>>>> \o r : v \in CookieValues, r \in rest}

InitCookie ==
  /\ EngineInit
  /\ uri = NoUriCall
  /\ live = NoLive
  /\ proxy = NoProxy
  /\ legacy = NoLegacy
  /\ \E cookies \in Jars(<<"tt-target-idc", "sessionid", "sid_tt">>),
        authenticate_websocket \in BOOLEAN :
       ws_cookie = [NoCookieCall EXCEPT !.cookies = cookies,
                      !.authenticate_websocket = authenticate_websocket]

GetWsCookieString ==
  /\ ~ws_cookie.called
  /\ LET call == get_ws_cookie_string(ws_cookie.cookies,
                                      ws_cookie.authenticate_websocket) IN
     ws_cookie' = [ws_cookie EXCEPT !.called = TRUE, !.error = call.error,
                                    !.cookie_values = call.cookie_values,
                                    !.cookie_string = call.cookie_string]
  /\ UNCHANGED <<engineVars, uri, live, proxy, legacy>>

SpecCookie == InitCookie /\ [][GetWsCookieString]_vars

\* ------------------------------------------------- TikTokLiveClient.is_live
\* What a consumer gives as unique_id, in pieces: a name, "@" and the name, or
\* the URL of the live page. A name of digits can be a user id.
UserNames == {"alice", "bob", "123"}
tiktok_app_url == "https://www.tiktok.com"

UniqueIds ==
  UNION {{<<n>>, <<"@", n>>, <<tiktok_app_url \o "/", "@", n, "/live">>} : n \in UserNames}

\* parse_unique_id, client.py:91-106: the URL of the site and "/live" are
\* removed wherever they are, then the first "@".
RECURSIVE without_all(_, _)
without_all(pieces, removed) ==
  IF pieces = <<>> THEN <<>>
  ELSE IF Head(pieces) \in removed THEN without_all(Tail(pieces), removed)
  ELSE <<Head(pieces)>> \o without_all(Tail(pieces), removed)

RECURSIVE without_first(_, _)
without_first(pieces, removed) ==
  IF pieces = <<>> THEN <<>>
  ELSE IF Head(pieces) = removed THEN Tail(pieces)
  ELSE <<Head(pieces)>> \o without_first(Tail(pieces), removed)

parse_unique_id(unique_id) ==
  str(without_first(without_all(unique_id, {tiktok_app_url \o "/", "/live"}), "@"))

\* _resolve_user_id, client.py:451-459, for a parsed id (parsing a stored id
\* again gives the same id: it has no "@" and no URL): a name of digits is
\* looked up when the client was made with is_userid; `resolved` is the
\* answer of fetch_user_unique_id ("": none).
isdigit(parsed_id) == parsed_id = "123"

resolve_user_id(parsed_id, is_userid, resolved) ==
  IF isdigit(parsed_id) /\ is_userid
  THEN IF resolved = "" THEN [error |-> "FailedResolveUserId", unique_id |-> ""]
       ELSE [error |-> "None", unique_id |-> resolved]
  ELSE [error |-> "None", unique_id |-> parsed_id]

InitLive ==
  /\ EngineInit
  /\ uri = NoUriCall
  /\ ws_cookie = NoCookieCall
  /\ proxy = NoProxy
  /\ legacy = NoLegacy
  /\ \E unique_id \in UniqueIds, is_userid \in BOOLEAN :
       live = [NoLive EXCEPT !.constructed = parse_unique_id(unique_id),
                             !.unique_id = parse_unique_id(unique_id),
                             !.is_userid = is_userid]

\* is_live(unique_id), client.py:401-412; <<>> is None. The resolved id is
\* stored in self._unique_id (line 410); the call recorded is fetch_is_live.
IsLive ==
  /\ live.calls < MaxCalls
  /\ \E argument \in UniqueIds \cup {<<>>}, resolved \in {"", "carol"} :
       LET given == IF argument # <<>> THEN parse_unique_id(argument) ELSE live.unique_id
           r == resolve_user_id(given, live.is_userid, resolved) IN
       live' = [live EXCEPT
                  !.calls = @ + 1,
                  !.unique_id = IF r.error # "None" THEN @
                                ELSE r.unique_id,
                  !.last = [op |-> "is_live", argument |-> argument, error |-> r.error,
                            unique_id |-> r.unique_id]]
  /\ UNCHANGED <<engineVars, uri, ws_cookie, proxy, legacy>>

\* start() up to the request for the room id, client.py:133-140, on a client
\* that is not connected. The call recorded is fetch_room_id_from_html.
StartResolve ==
  /\ live.calls < MaxCalls
  /\ \E resolved \in {"", "carol"} :
       LET r == resolve_user_id(live.unique_id, live.is_userid, resolved) IN
       live' = [live EXCEPT
                  !.calls = @ + 1,
                  !.unique_id = IF r.error # "None" THEN @ ELSE r.unique_id,
                  !.last = [op |-> "start", argument |-> <<>>, error |-> r.error,
                            unique_id |-> r.unique_id]]
  /\ UNCHANGED <<engineVars, uri, ws_cookie, proxy, legacy>>

SpecLive == InitLive /\ [][IsLive \/ StartResolve]_vars

\* ------------------------------------------------------------ ProxyContainer
\* ProxyContainer(*proxies, mode, enabled), proxy.py:24-38, with up to
\* MaxProxies proxies.
InitProxy ==
  /\ EngineInit
  /\ uri = NoUriCall
  /\ ws_cookie = NoCookieCall
  /\ live = NoLive
  /\ legacy = NoLegacy
  /\ \E count \in 0..MaxProxies, enabled \in BOOLEAN,
        mode \in {DefaultMode, RotationSetting.CONSECUTIVE, RotationSetting.RANDOM} :
       proxy = [NoProxy EXCEPT !.count = count, !.mode = mode, !.before_pinned = mode,
                               !.enabled = enabled, !.constructed = mode]

\* get(), proxy.py:85-113, with `random` the answer of random.randint: the
\* place of the proxy returned (<<>>: None) and the new self.__index.
get(p, random) ==
  IF p.count < 1 \/ ~p.enabled THEN [result |-> <<>>, index |-> p.index]
  ELSE LET chosen == IF p.mode = RotationSetting.CONSECUTIVE
                     THEN IF p.index >= p.count
                          THEN [index |-> 0, next |-> 1]
                          ELSE [index |-> p.index, next |-> p.index + 1]
                     ELSE [index |-> random, next |-> p.index] IN
       [result |-> IF chosen.index < p.count THEN <<chosen.index>> ELSE <<>>,
        index |-> chosen.next]

Get ==
  /\ proxy.calls < MaxProxyCalls
  /\ \E random \in 0..(IF proxy.count < 1 THEN 0 ELSE proxy.count - 1) :
       LET g == get(proxy, random) IN
       proxy' = [proxy EXCEPT !.index = g.index, !.calls = @ + 1, !.gets = @ + 1,
                              !.last = [op |-> "get", result |-> g.result]]
  /\ UNCHANGED <<engineVars, uri, ws_cookie, live, legacy>>

\* set_pinned(index), proxy.py:62-73.
SetPinned ==
  /\ proxy.calls < MaxProxyCalls
  /\ \E index \in 0..(MaxProxies - 1) :
       proxy' = [proxy EXCEPT !.pin = index, !.before_pinned = proxy.mode,
                              !.mode = RotationSetting.PINNED,
                              !.pinned = <<index>>, !.only_get = FALSE, !.calls = @ + 1,
                              !.last = [op |-> "set_pinned", result |-> <<>>]]
  /\ UNCHANGED <<engineVars, uri, ws_cookie, live, legacy>>

\* set_unpinned(), proxy.py:75-83.
SetUnpinned ==
  /\ proxy.calls < MaxProxyCalls
  /\ proxy' = [proxy EXCEPT !.mode = proxy.before_pinned,
                             !.pinned = <<>>, !.only_get = FALSE, !.calls = @ + 1,
                             !.last = [op |-> "set_unpinned", result |-> <<>>]]
  /\ UNCHANGED <<engineVars, uri, ws_cookie, live, legacy>>

\* set_enabled(enabled), proxy.py:51-60.
SetEnabled ==
  /\ proxy.calls < MaxProxyCalls
  /\ \E enabled \in BOOLEAN :
       proxy' = [proxy EXCEPT !.enabled = enabled, !.only_get = FALSE, !.calls = @ + 1,
                              !.last = [op |-> "set_enabled", result |-> <<>>]]
  /\ UNCHANGED <<engineVars, uri, ws_cookie, live, legacy>>

SpecProxy == InitProxy /\ [][Get \/ SetPinned \/ SetUnpinned \/ SetEnabled]_vars

\* ------------------------------------- the request-polling client, _connect
\* The awaits of _connect, base.py:283-298, in order; "None": no _connect is
\* between its guards and its end.
ConnectOrder == <<"room_id", "room_info", "gifts", "room_data">>

\* Whether _connect makes the await, by the options of the client.
connect_awaits(l, at) ==
  CASE at = "room_info" -> l.fetch_room_info_on_connect
    [] at = "gifts"     -> l.enable_extended_gift_info
    [] OTHER            -> TRUE

\* The first await of _connect after place i of ConnectOrder; "end": none.
RECURSIVE connect_next(_, _)
connect_next(l, i) ==
  IF i >= Len(ConnectOrder) THEN "end"
  ELSE IF connect_awaits(l, ConnectOrder[i + 1]) THEN ConnectOrder[i + 1]
  ELSE connect_next(l, i + 1)

connect_place(at) == CHOOSE i \in 1..Len(ConnectOrder) : ConnectOrder[i] = at

\* The guards of _connect, base.py:274-278 and client.py:314-318: what the
\* call raises ("None": it goes on).
connect_guard(l) ==
  IF l.connecting THEN "AlreadyConnecting"
  ELSE IF l.connected THEN "AlreadyConnected"
  ELSE "None"

InitLegacy ==
  /\ EngineInit
  /\ uri = NoUriCall
  /\ ws_cookie = NoCookieCall
  /\ live = NoLive
  /\ proxy = NoProxy
  /\ \E info \in BOOLEAN, gifts \in BOOLEAN :
       legacy = [NoLegacy EXCEPT !.fetch_room_info_on_connect = info,
                                 !.enable_extended_gift_info = gifts]

\* A call of start() or _connect() up to its first await, base.py:265-283.
LegacyConnect ==
  /\ legacy.calls < MaxLegacyCalls
  /\ LET raised == connect_guard(legacy)
         call == [op |-> "_connect", raised |-> raised,
                  in_progress |-> legacy.at # "None",
                  was_connected |-> legacy.connected] IN
     legacy' = IF raised # "None"
               THEN [legacy EXCEPT !.calls = @ + 1, !.last = call]
               ELSE [legacy EXCEPT !.calls = @ + 1, !.last = call,
                                   !.connecting = TRUE, !.at = "room_id"]
  /\ UNCHANGED <<engineVars, uri, ws_cookie, live, proxy>>

\* The await of the _connect in progress returns or raises. After the last
\* one, base.py:298-330: connected is set; without a websocket and without a
\* sessionid cookie FailedRoomPolling is raised after that. A raise anywhere
\* resets connecting alone and ends the call with FailedConnection (raised
\* at client.py:351, handed to _on_error at base.py:330).
LegacyConnectStep ==
  /\ legacy.at # "None"
  /\ \E ok \in BOOLEAN, can_receive \in BOOLEAN :
       LET next == connect_next(legacy, connect_place(legacy.at)) IN
       legacy' =
         IF ~ok
         THEN [legacy EXCEPT !.connecting = FALSE, !.at = "None",
                             !.last = [NoLegacyCall EXCEPT !.op = "_connect failed",
                                                           !.raised = "FailedConnection"]]
         ELSE IF next # "end"
         THEN [legacy EXCEPT !.at = next,
                             !.last = [NoLegacyCall EXCEPT !.op = "_connect await"]]
         ELSE IF can_receive
         THEN [legacy EXCEPT !.connected = TRUE, !.at = "None",
                             !.last = [NoLegacyCall EXCEPT !.op = "_connect returned"]]
         ELSE [legacy EXCEPT !.connected = TRUE, !.connecting = FALSE, !.at = "None",
                             !.last = [NoLegacyCall EXCEPT !.op = "_connect failed",
                                                           !.raised = "FailedConnection"]]
  /\ UNCHANGED <<engineVars, uri, ws_cookie, live, proxy>>

\* stop(), base.py:346-356, and _disconnect(), base.py:332-343.
LegacyStop ==
  /\ legacy.calls < MaxLegacyCalls
  /\ legacy' = IF legacy.connected
               THEN [legacy EXCEPT !.connecting = FALSE, !.connected = FALSE,
                                   !.calls = @ + 1,
                                   !.last = [NoLegacyCall EXCEPT !.op = "stop"]]
               ELSE [legacy EXCEPT !.calls = @ + 1,
                                   !.last = [NoLegacyCall EXCEPT !.op = "stop"]]
  /\ UNCHANGED <<engineVars, uri, ws_cookie, live, proxy>>

SpecLegacy == InitLegacy /\ [][LegacyConnect \/ LegacyConnectStep \/ LegacyStop]_vars

\* --------------------------------------------------------- build_webcast_uri
\* The arguments of build_webcast_uri: an initial response (route_params is a
\* dict), the base parameters (a dict) and the string to append.
UriInitials ==
  [cursor : {"", "c0"}, push_server : {"", "wss://x/y"}, internal_ext : Exts,
   route_params : {<<>>, <<<<"k", "1">>>>, <<<<"cursor", "r">>, <<"k", "1">>>>}]

UriArguments ==
  [initial : UriInitials,
   base_uri_params : {<<>>, <<<<"k", "2">>>>, <<<<"aid", "3">>, <<"k", "2">>>>},
   base_uri_append_str : {"", "&x=1"}]

InitUri ==
  /\ EngineInit
  /\ \E given \in UriArguments : uri = [given |-> given, now |-> given, returned |-> <<>>]
  /\ ws_cookie = NoCookieCall
  /\ live = NoLive
  /\ proxy = NoProxy
  /\ legacy = NoLegacy

\* build_webcast_uri is called with the objects it was called with before.
BuildUri ==
  /\ Len(uri.returned) < MaxCalls
  /\ LET call == connect_uri(uri.now.initial, uri.now.base_uri_params,
                             uri.now.base_uri_append_str) IN
     uri' = [uri EXCEPT
               !.returned = Append(@, IF call.error # "None" THEN call.error
                                      ELSE call.connect_uri),
               !.now = [@ EXCEPT !.initial = call.initial,
                                 !.base_uri_params = call.base_uri_params]]
  /\ UNCHANGED <<engineVars, ws_cookie, live, proxy, legacy>>

SpecUri == InitUri /\ [][BuildUri]_vars

\* -------------------------------------------------------------- properties
SyntheticEvents == {"LiveEndEvent", "LivePauseEvent", "LiveUnpauseEvent", "FollowEvent",
                    "ShareEvent"}

\* The types of the events of the last step that were derived from message i
\* of its envelope, in the order of emission.
TypesOf(i) ==
  LET es == SelectSeq(emitted, LAMBDA e : e.msg = i) IN
  [j \in 1..Len(es) |-> es[j].type]

\* The session task s has ended after its first upgrade succeeded.
EndedAfterOpen(s) == sessPc[s] \in Finished /\ ~first_connect[s]

\* No disconnect() coroutine is in progress.
NoDisconnectPending == \A d \in Discs : discPc[d] \in {"unborn", "returned", "raised"}

\* C1: while the socket is open, a "msg" push frame whose envelope has
\* needs_ack set is answered by exactly one ack frame, with the log id of the
\* push frame and the envelope's internal_ext (or "-" when it is empty) as
\* payload; an envelope with needs_ack unset is answered by no ack frame.
C1_AckIffNeedsAck ==
  /\ (lastFrame.payload_type = "msg" /\ lastOpen /\ lastResp.needs_ack) =>
       acks = <<[payload_type |-> "ack", log_id |-> lastFrame.log_id,
                 payload |-> IF lastResp.internal_ext = "" THEN "-"
                             ELSE lastResp.internal_ext]>>
  /\ ~lastResp.needs_ack => acks = <<>>

\* An open socket has just acked the second frame, whose internal_ext is empty.
C1_Witness ==
  /\ lastFrame.payload_type = "msg" /\ lastFrame.seq = 2
  /\ lastOpen /\ lastResp.needs_ack /\ lastResp.internal_ext = ""
  /\ Len(acks) = 1

\* C2: at any time at most one session task exists, whatever the interleaving
\* of the calls of start().
C2_AtMostOneSessionTask ==
  Cardinality({s \in Starts : sessPc[s] \notin ({"unborn"} \cup Finished)}) <= 1

\* C3: a session emits one ConnectEvent only: no envelope received after it,
\* whatever its is_first flag, causes a second one.
C3_NoSecondConnectEvent ==
  \A s \in Starts : obs[s].connects <= 1

\* C4: a session task that ends by a consumer disconnect, by the peer closing
\* the socket with any close code or after a stream-ended signal has emitted
\* exactly one DisconnectEvent, and no event after it.
C4_ExactlyOneDisconnectEvent ==
  \A s \in Starts :
    /\ ~obs[s].afterDisconnect
    /\ (EndedAfterOpen(s) /\ sessErr[s] # "AttributeError") => obs[s].disconnects = 1

\* C5: the events of one message are emitted in the order synthetic event (if
\* one applies), WebsocketResponseEvent, proto event (none when the payload
\* does not parse); the events of different messages are not interleaved and
\* follow the order of the messages; frames are handled in their order of
\* arrival.
C5_DispatchOrder ==
  LET msgs == lastResp.messages
      body == SelectSeq(emitted, LAMBDA e : e.msg # 0)
  IN
  /\ \A j \in 1..Len(emitted) : emitted[j].msg \in 0..Len(msgs)
  /\ \A j \in 1..(Len(body) - 1) : body[j].msg <= body[j + 1].msg
  /\ \A i \in 1..Len(msgs) :
       LET T == TypesOf(i)
           at == {j \in 1..Len(T) : T[j] = "WebsocketResponseEvent"}
           mapped == EVENT_MAPPINGS(msgs[i].method)
       IN
       /\ Cardinality(at) = 1
       /\ \A w \in at :
            /\ w <= 2 /\ Len(T) <= w + 1
            /\ \A j \in 1..(w - 1) : T[j] \in SyntheticEvents
            /\ \A j \in (w + 1)..Len(T) : T[j] \in ProtoEvents \cup {"UnknownEvent"}
            /\ (mapped # "None" /\ ~msgs[i].parses) => Len(T) = w
            /\ (mapped # "None" /\ msgs[i].parses) => (Len(T) = w + 1 /\ T[w + 1] = mapped)
  /\ lastFrame.seq # 0 =>
       \A j \in 1..Len(inbox[emitter]) : inbox[emitter][j] > lastFrame.seq

\* The second frame carries a stream-ended signal followed by a message that
\* does not parse.
C5_Witness ==
  /\ lastFrame.seq = 2 /\ Len(lastResp.messages) = 2
  /\ TypesOf(1) = <<"LiveEndEvent", "WebsocketResponseEvent", "ControlEvent">>
  /\ TypesOf(2) = <<"WebsocketResponseEvent">>

\* C6: a message whose method is not in EVENT_MAPPINGS yields exactly the
\* WebsocketResponseEvent and then the UnknownEvent, whether or not its payload
\* would parse, and the messages after it are still handled.
C6_UnknownMethod ==
  emitter # 0 =>
    \A i \in 1..Len(lastResp.messages) :
      EVENT_MAPPINGS(lastResp.messages[i].method) = "None" =>
        /\ TypesOf(i) = <<"WebsocketResponseEvent", "UnknownEvent">>
        /\ \A j \in (i + 1)..Len(lastResp.messages) : TypesOf(j) # <<>>

\* An untracked message whose payload would not parse is followed by a chat
\* message.
C6_Witness ==
  /\ emitter # 0 /\ Len(lastResp.messages) = 2
  /\ lastResp.messages[1].method = "WebcastUntrackedMessage"
  /\ ~lastResp.messages[1].parses
  /\ TypesOf(2) = <<"WebsocketResponseEvent", "CommentEvent">>

\* C7: after a LiveEndEvent, once the disconnect it scheduled (the only one
\* made) has closed the session's socket with an OK close code and returned,
\* the session task has completed and has emitted exactly one DisconnectEvent,
\* after the LiveEndEvent.
C7_DisconnectAfterLiveEnd ==
  \A s \in Starts, d \in Discs :
    (obs[s].liveEnds > 0 /\ discPc[d] = "returned" /\ discWs[d] = s
       /\ (\A e \in Discs \ {d} : discPc[e] = "unborn")
       /\ sessErr[s] \notin {"AttributeError", "ConnectionClosedError"})
      => (sessPc[s] = "done" /\ obs[s].disconnects = 1 /\ obs[s].afterLiveEnd)

\* C8: a parsed control message with action STREAM_PAUSED yields a
\* LivePauseEvent, one with action STREAM_UNPAUSED a LiveUnpauseEvent, and
\* neither schedules a disconnect.
C8_PauseAndUnpause ==
  emitter # 0 =>
    /\ \A i \in 1..Len(lastResp.messages) :
         LET m == lastResp.messages[i] IN
         (m.method = "WebcastControlMessage" /\ m.parses) =>
           /\ m.action = CONTROL_ACTION_STREAM_PAUSED =>
                TypesOf(i) = <<"LivePauseEvent", "WebsocketResponseEvent", "ControlEvent">>
           /\ m.action = CONTROL_ACTION_STREAM_UNPAUSED =>
                TypesOf(i) = <<"LiveUnpauseEvent", "WebsocketResponseEvent", "ControlEvent">>
    /\ (\A i \in 1..Len(lastResp.messages) :
          lastResp.messages[i].action \in {CONTROL_ACTION_STREAM_PAUSED,
                                           CONTROL_ACTION_STREAM_UNPAUSED})
         => \A d \in Discs : discPc[d] = "unborn"

\* C9: once the session task has ended (here: after the peer closed the
\* socket) and no disconnect() is in progress, room_id, room_info and gift_info
\* are None.
C9_ClearedAfterSession ==
  (NoDisconnectPending
     /\ \E s \in Starts : EndedAfterOpen(s) /\ sessErr[s] # "AttributeError")
    => (room_id = "None" /\ room_info = "None" /\ gift_info = "None")

\* C10: a disconnect() called while the socket was open, whose close handshake
\* the peer completed, returns only after the session task has completed, and
\* the task has completed without an error.
C10_DisconnectCompletesSession ==
  \A d \in Discs :
    (discPc[d] = "returned" /\ discWs[d] # 0
       /\ sessErr[discWs[d]] \notin {"AttributeError", "ConnectionClosedError"})
      => sessPc[discWs[d]] = "done"

\* C11: a disconnect() that finds the client not connected (discWs = 0: never connected,
\* or already being disconnected by an earlier or a concurrent call, the one
\* scheduled by a stream-ended control included) raises nothing; no step of a
\* disconnect() emits an event; and when it returns after another disconnect()
\* has returned and reset the client, it leaves the stored task, room_id,
\* room_info, gift_info and the socket as that disconnect() left them.
C11_DoubleDisconnectNoOp ==
  [][ /\ \A d \in Discs : (discWs'[d] = 0 /\ discPc'[d] # discPc[d]) => discPc'[d] # "raised"
      /\ (\E d \in Discs : discPc'[d] # discPc[d] /\ discPc'[d] # "created")
           => emitted' = <<>>
      /\ \A d \in Discs :
           (discWs'[d] = 0 /\ discPc[d] # "returned" /\ discPc'[d] = "returned"
              /\ (\E e \in Discs \ {d} : discPc[e] = "returned")
              /\ event_loop_task = 0 /\ room_id = "None"
              /\ room_info = "None" /\ gift_info = "None")
             => /\ clientVars' = clientVars
                /\ wsState' = wsState
                /\ connection_generator' = connection_generator ]_vars

C13_Blocked200 ==
  [][ /\ lastUpgrade'.status = "200" =>
           LET s == lastUpgrade'.session IN
           /\ sessPc'[s] = "raised" /\ sessErr'[s] = "WebcastBlocked200Error"
           /\ lastUpgrade'.error = "WebcastBlocked200Error"
           /\ lastUpgrade'.message = IF lastUpgrade'.handshake_msg = "None"
                                      THEN "an unknown reason"
                                      ELSE lastUpgrade'.handshake_msg
           /\ emitted' = <<>> /\ obs'[s] = obs[s]
           /\ wsState'[s] = "None"
      /\ \A s \in Starts :
           sessErr[s] = "WebcastBlocked200Error" =>
             /\ sessPc'[s] = "raised" /\ sessErr'[s] = sessErr[s]
             /\ wsState'[s] = "None" /\ obs'[s] = obs[s] ]_vars

\* The first upgrade request of a session was answered 200 with the header
\* "blocked": no ConnectEvent has been emitted.
C13_Witness ==
  /\ lastUpgrade.status = "200" /\ lastUpgrade.handshake_msg = "blocked"
  /\ lastUpgrade.message = "blocked"
  /\ sessErr[1] = "WebcastBlocked200Error" /\ first_connect[1]
  /\ obs[1].connects = 0

\* C14: an exception raised by a subscriber's handler stays in the handler:
\* the session task does not end with it, and every event of the envelope
\* that was being delivered is emitted.
C14_HandlerExceptionContained ==
  lastHandler.index > 0 =>
    /\ sessErr[emitter] # "HandlerError"
    /\ \A i \in 1..Len(parse_webcast_response(lastResp)) :
         /\ i <= Len(emitted)
         /\ emitted[i] = parse_webcast_response(lastResp)[i]

C15_ConnectReraises ==
  [][ \A k \in Starts :
        (api[k] = "connect" /\ startPc[k] = "returned" /\ startPc'[k] # "returned")
          => /\ sessPc[k] \in Finished
             /\ sessPc[k] = "raised"
                  => startPc'[k] = "connect_raised" /\ startErr'[k] = sessErr[k]
             /\ sessPc[k] \in {"cancelled", "done"}
                  => startPc'[k] = "connect_returned" /\ startErr'[k] = "None" ]_vars

\* connect() has returned the task of a session that ended by cancellation.
C15_Witness ==
  \E k \in Starts :
    api[k] = "connect" /\ startPc[k] = "connect_returned" /\ sessPc[k] = "cancelled"

\* C16: a start() that fails in room resolution, in the liveness check, in
\* an optional fetch or in the signing handshake raises the error of that
\* await; the step creates no session task and leaves the stored one as it
\* was, opens no WebSocket and emits no event.
C16_FailedStartCreatesNothing ==
  [][ \A k \in Starts :
        (startPc[k] \in {StageOrder[i] : i \in 1..Len(StageOrder)} /\ startPc'[k] = "raised")
          => /\ startErr'[k] \in IF startPc[k] = "signed_websocket" THEN SignErrors
                                 ELSE StartErrors(startPc[k])
             /\ startPc[k] = "signed_websocket" => startErr'[k] = lastSign'.out.error
             /\ event_loop_task' = event_loop_task
             /\ sessPc' = sessPc
             /\ wsState' = wsState
             /\ emitted' = <<>>
             /\ obs' = obs ]_vars

\* A second start() has failed in the signing handshake while the task of
\* the first is stored: it created no task of its own.
C16_Witness ==
  \E k \in Starts :
    /\ startPc[k] = "raised" /\ startErr[k] = "SignAPIError"
    /\ sessPc[k] = "unborn"
    /\ event_loop_task \notin {0, k}

\* C17: without a room_id override the REST resolver is called exactly when
\* the HTML stage failed with an exception other than UserNotFoundError and
\* UserOfflineError: the step that ends the HTML stage goes on to the REST
\* resolver with such an exception caught, or raises one of those two to the
\* caller, or has resolved the room id; and the REST resolver is entered
\* from the HTML stage only.
C17_FallbackIffOtherFailure ==
  [][ \A k \in Starts :
        /\ (startPc[k] = "room_id_html" /\ startPc'[k] # "room_id_html")
             => \/ /\ startPc'[k] = "room_id_api"
                   /\ base_ex'[k] \in StartErrors("room_id_html")
                                        \ {"UserNotFoundError", "UserOfflineError"}
                \/ /\ startPc'[k] = "raised"
                   /\ startErr'[k] \in {"UserNotFoundError", "UserOfflineError"}
                \/ /\ startPc'[k] \in Following("room_id_api")
                   /\ room_id' = "room"
        /\ (startPc'[k] = "room_id_api" /\ startPc[k] # "room_id_api")
             => startPc[k] = "room_id_html" ]_vars

\* The HTML stage failed to parse the page and the REST resolver is called.
C17_Witness ==
  \E k \in Starts : startPc[k] = "room_id_api" /\ base_ex[k] = "FailedParseRoomIdError"

\* C18: the session id reaches the signing service only when
\* WHITELIST_AUTHENTICATED_SESSION_ID_HOST names the host of the signing
\* service: a request sent with it, as parameter or as cookie, was made with
\* the whitelist set to that host, and with a session cookie set and the
\* whitelist missing or naming another host the handshake raises
\* AuthenticatedWebSocketConnectionError and sends no request.
C18_SessionIdGated ==
  lastSign.call # 0 =>
    /\ (lastSign.out.request.sent
          /\ (lastSign.out.request.session_id # "None"
               \/ lastSign.out.request.cookie_sessionid # "None"))
         => lastSign.input.whitelist = SignHost
    /\ (lastSign.input.cookie_sessionid # "None" /\ lastSign.input.whitelist # SignHost)
         => /\ lastSign.out.error = "AuthenticatedWebSocketConnectionError"
            /\ ~lastSign.out.request.sent

\* C19: the answer of the signing service is mapped by these checks, in this
\* order: 429 gives SignatureRateLimitError with retry_after the integer of
\* RateLimit-Remaining; an empty body gives EMPTY_PAYLOAD; a status other
\* than 200 gives SIGN_NOT_200; a missing X-Set-TT-Cookie gives
\* EMPTY_COOKIES; otherwise the initial fetch-result is returned.
C19_ResponseMapping ==
  (lastSign.call # 0 /\ lastSign.out.request.sent /\ ~lastSign.input.connect_error) =>
    LET in == lastSign.input
        out == lastSign.out IN
    IF in.status_code = 429
    THEN /\ out.error = "SignatureRateLimitError"
         /\ out.retry_after = in.rate_limit_remaining
    ELSE IF in.data = ""
    THEN out.error = "SignAPIError" /\ out.reason = "EMPTY_PAYLOAD"
    ELSE IF in.status_code # 200
    THEN out.error = "SignAPIError" /\ out.reason = "SIGN_NOT_200"
    ELSE IF in.x_set_tt_cookie = "None"
    THEN out.error = "SignAPIError" /\ out.reason = "EMPTY_COOKIES"
    ELSE out.error = "None" /\ startPc[lastSign.call] = "returned"

\* C21: after an envelope has been decoded from a frame, the cursor and the
\* internal_ext the session advertises are those of that envelope.
C21_AdvertisedFollowsEnvelope ==
  (emitter # 0 /\ lastFrame # NoFrame /\ lastFrame.payload_type = "msg"
     /\ lastFrame.decodes) =>
    /\ advertised(emitter).cursor = lastResp.cursor
    /\ advertised(emitter).internal_ext = lastResp.internal_ext

\* C22: a session whose connection has been opened once never has a connection
\* opened again, however the first connection ended.
C22_OneConnectionAttempt ==
  [][\A s \in Starts :
       (wsState[s] # "open" /\ wsState'[s] = "open") => first_connect[s]]_vars

\* C23: a heartbeat task lives inside a session task: whenever every session
\* task that has run has finished, no heartbeat task is waiting to run or
\* sleeping.
C23_HeartbeatWithinSession ==
  (\A s \in Starts : sessPc[s] \in Finished \cup {"unborn", "created"})
    => \A p \in Pings : pingPc[p] \notin {"created", "sleeping"}

\* C24: a received message that does not decode ends nothing: the session
\* task goes on reading the next message and no event is emitted for it.
C24_DecodeFailureSkipped ==
  /\ (emitter # 0 /\ lastFrame # NoFrame /\ ~lastFrame.decodes)
       => (sessPc[emitter] = "recv" /\ emitted = <<>>)
  /\ \A s \in Starts : sessErr[s] # "DecodeError"

\* C25: a disconnect() that finishes awaiting a session task that ended by
\* cancellation returns, and has reset the stored task, room_id, room_info and
\* gift_info.
C25_CancellationSwallowed ==
  [][\A d \in Discs :
       LET t == IF discPc[d] = "task_wait" THEN discTask[d] ELSE event_loop_task IN
       (discPc'[d] # discPc[d] /\ discPc'[d] \in {"returned", "raised"}
          /\ t # 0 /\ sessPc[t] = "cancelled")
         => /\ discPc'[d] = "returned"
            /\ event_loop_task' = 0
            /\ room_id' = "None"
            /\ room_info' = "None"
            /\ gift_info' = "None"]_vars

\* C26: the initial response that the signed handshake returned, and that the
\* connection iterator yields after the first upgrade, is flagged is_first.
C26_InitialIsFirst ==
  (lastUpgrade.session # 0 /\ lastUpgrade.status = "101"
     /\ emitter = lastUpgrade.session)
    => lastUpgrade.initial.is_first

\* C27: the connection iterator yields the initial response of the signed
\* handshake in the step in which the first upgrade of the session succeeds,
\* with the socket open; it yields it in no other step, so once per session;
\* and it yields an envelope decoded from a frame only after that.
C27_InitialYieldedFirstOnce ==
  [][\A s \in Starts :
       LET opened == wsState[s] # "open" /\ wsState'[s] = "open"
           yieldsInitial == lastUpgrade'.session = s /\ emitter' = s
           yieldsDecoded == /\ emitter' = s /\ lastUpgrade' = NoUpgrade
                            /\ lastFrame' # NoFrame /\ lastFrame'.decodes
                            /\ lastFrame'.payload_type = "msg"
       IN
       /\ yieldsInitial <=> (opened /\ first_connect[s])
       /\ yieldsInitial =>
            /\ lastFrame' = NoFrame
            /\ lastUpgrade'.status = "101"
            /\ lastResp'.is_first = lastUpgrade'.initial.is_first
            /\ lastResp'.needs_ack = lastUpgrade'.initial.needs_ack
            /\ lastResp'.cursor = initial_uri[s].cursor
            /\ ~first_connect'[s]
       /\ yieldsDecoded => ~first_connect[s]
       /\ ~first_connect[s] => ~first_connect'[s]]_vars

C27_Witness ==
  /\ lastUpgrade.status = "101" /\ lastUpgrade.session # 0
  /\ emitter = lastUpgrade.session /\ lastFrame = NoFrame
  /\ wsState[emitter] = "open" /\ ~first_connect[emitter]
  /\ lastResp.messages # <<>> /\ lastResp.messages = lastUpgrade.initial.messages

\* C28: a received frame whose payload_type is not "msg" is not yielded: the
\* step that reads it emits no event and sends no ack, and the session task
\* goes on reading the next frame.
C28_NonMsgFrameSkipped ==
  (emitter # 0 /\ lastFrame # NoFrame /\ lastFrame.payload_type # "msg")
    => /\ lastResp = NoResp
       /\ emitted = <<>>
       /\ acks = <<>>
       /\ sessPc[emitter] = "recv"

\* C29: for an envelope decoded from a frame, the ack is sent after the
\* events of the envelope have been emitted.
C29_AckAfterYield ==
  (emitter # 0 /\ lastFrame # NoFrame) =>
    \A i, j \in DOMAIN step_effects :
      (step_effects[i] = "send_ack" /\ step_effects[j] = "emit") => j < i

\* C30: the initial response, which the connection iterator yields with no
\* push frame, causes no ack to be sent and no error in the sending of acks:
\* the session task does not end in the step that yields it with an error of
\* send_ack.
C30_InitialNeverAcked ==
  (lastUpgrade.session # 0 /\ emitter = lastUpgrade.session)
    => /\ acks = <<>>
       /\ ~(sessPc[emitter] = "raised" /\ sessErr[emitter] = "AttributeError")

C32_AnonymousCookieString ==
  (ws_cookie.called /\ ~ws_cookie.authenticate_websocket) =>
    LET session_id == cookies_get(ws_cookie.cookies, "sessionid")
        others == {c \in {ws_cookie.cookies[i] : i \in DOMAIN ws_cookie.cookies} :
                     session_id \in {NoValue, <<>>} \/ ~contains(c[2], session_id)}
        header == {ws_cookie.cookie_values[i] : i \in DOMAIN ws_cookie.cookie_values}
    IN
    /\ ws_cookie.error = "None"
    /\ header = others
    /\ Len(ws_cookie.cookie_values) = Cardinality(others)

C32_Witness ==
  /\ ws_cookie.called /\ ~ws_cookie.authenticate_websocket
  /\ ws_cookie.cookies = <<<<"tt-target-idc", <<"b">>>>, <<"sessionid", <<"a">>>>,
                           <<"sid_tt", <<"b", "a">>>>>>
  /\ ws_cookie.cookie_string = "tt-target-idc=b;"

\* C33: at any time at most one heartbeat task is live, i.e. has not finished
\* and has not had cancel() called on it; a task that restart_ping_loop
\* cancelled does nothing more than end at its next step.
C33_OneHeartbeat ==
  Cardinality({p \in Pings : pingPc[p] \in {"created", "sleeping"} /\ ~pingCancel[p]}) <= 1

C33_Witness ==
  \E p, q \in Pings :
    /\ p # q /\ ping_loop = q
    /\ pingPc[p] = "sleeping" /\ pingCancel[p]
    /\ pingPc[q] \in {"created", "sleeping"} /\ ~pingCancel[q]
    /\ lastFrame # NoFrame /\ lastResp.is_first

\* C34: when a disconnect() that found the client not connected, and awaited
\* the session task, has returned, that session has ended and has no socket
\* open or being closed.
C34_EarlyDisconnectTearsDown ==
  \A d \in Discs :
    (discPc[d] = "returned" /\ discWs[d] = 0 /\ discTask[d] # 0)
      => /\ sessPc[discTask[d]] \in Finished
         /\ wsState[discTask[d]] \notin {"open", "closing"}

\* C35: once the session task has ended and no other is under way, the
\* client is not connected and the heartbeat task and the connection
\* generator of the WebSocket client are None.
C35_ReusableAfterSession ==
  ((\E s \in Starts : sessPc[s] \in Finished)
     /\ \A s \in Starts : sessPc[s] \in Finished \cup {"unborn"})
    => /\ ~connected
       /\ ping_loop = 0
       /\ connection_generator = 0

\* C36: when the start() made on a fresh client has raised, room_id,
\* room_info and gift_info are None, as they were before the call.
C36_FailedStartCachesNothing ==
  (startPc[1] = "raised" /\ \A k \in Starts \ {1} : startPc[k] = "idle")
    => /\ room_id = "None"
       /\ room_info = "None"
       /\ gift_info = "None"

\* C37: a call of is_live with a handle as argument leaves the unique id of
\* the client as it was.
C37_IsLiveKeepsUniqueId ==
  [][(live'.last.op = "is_live" /\ live'.last.argument # <<>> /\ live'.calls # live.calls)
       => live'.unique_id = live.unique_id]_vars

\* C38: on an enabled container pinned to a place that holds a proxy, get()
\* returns the proxy of that place.
C38_PinnedGetReturnsPin ==
  (/\ proxy.last.op = "get"
   /\ proxy.pinned # <<>>
   /\ proxy.enabled
   /\ proxy.pinned[1] < proxy.count)
    => proxy.last.result = proxy.pinned

\* C39: on an enabled container made with mode 1 or RotationSetting.CONSECUTIVE
\* on which only get() has been called, the k-th get() returns the proxy at
\* place (k - 1) modulo the number of proxies.
C39_ConsecutiveOrder ==
  (/\ proxy.last.op = "get"
   /\ proxy.only_get
   /\ proxy.enabled
   /\ proxy.count >= 1
   /\ proxy.constructed.value = 1)
    => proxy.last.result = <<(proxy.gets - 1) % proxy.count>>

\* C40: a _connect called while no _connect is in progress does not raise
\* AlreadyConnecting, and raises AlreadyConnected when the client is connected.
C40_ConnectGuard ==
  (legacy.last.op = "_connect" /\ ~legacy.last.in_progress)
    => /\ legacy.last.raised # "AlreadyConnecting"
       /\ legacy.last.was_connected => legacy.last.raised = "AlreadyConnected"

====
